---- MODULE Spec2Model ----
(***************************************************************************)
(* Procedural tile-map generators of components/Tiled: the seeded cave,    *)
(* drunkard's walk, BSP, wave-function-collapse and maze generators, the    *)
(* connectivity toolkit they share (flood fill, regions, keep-largest,      *)
(* stitch, marker placement) and the generator dispatch of the Tiled view.  *)
(*                                                                         *)
(* A generation is one run of a state machine: Init is a request (kind,    *)
(* size, options, seed), every action is one step of the generator that    *)
(* the request selects, and pc = "done" is the returned result.            *)
(***************************************************************************)
EXTENDS Integers, Sequences, FiniteSets, TLC

VARIABLES
  kind,      \* requested generator kind (key of createGenerators)
  tiles,     \* requested grid size N
  opts,      \* options record handed to the generator
  rng,       \* state of the per-generation PRNG
  pc,        \* position of the run
  grid,      \* the number grid under construction / returned
  outcome,   \* "pending", "grid" (a grid was returned) or "error"
  markers,   \* stats.markers: [start, end]
  pre,       \* the grid as it was before the connectivity pass and the markers
  iter,      \* cave: smoothing passes done
  walker,    \* drunkard: walker position and counters
  tree,      \* bsp: partition tree
  cells,     \* wfc: grid of cells (collapsed, options, tile)
  history,   \* wfc: snapshot stack
  stats,   \* wfc: iterations, backtracks
  stack,     \* maze: DFS stack (backtracking)
  frontier   \* maze: frontier list (prims)

vars == <<kind, tiles, opts, rng, pc, grid, outcome, markers, pre, iter, walker,
          tree, cells, history, stats, stack, frontier>>

(***************************************************************************)
(* Bounds of the model.                                                    *)
(***************************************************************************)
MaxSeed == 3        \* seeds 0..MaxSeed
MaxSize == 9        \* sizes MinSize..MaxSize
MaxBacktracksOpt == 1  \* wfc: maxBacktracks option 0..MaxBacktracksOpt

MinSize == 8        \* smallest grid size the view lets through

(***************************************************************************)
(* Tile vocabulary.                                                        *)
(***************************************************************************)
WALL == 0
FLOOR == 1
DOOR == 2
SECRET_DOOR == 3
START == 4
END == 5
CORRIDOR == 6

IsFloorLike(tileType) ==
  tileType \in {FLOOR, DOOR, SECRET_DOOR, START, END, CORRIDOR}

\* null: no grid, no tree, no room, no marker
Null == <<>>

(***************************************************************************)
(* The seeded PRNG (createRandomUtils).  Its 32-bit mulberry32 state is     *)
(* abstracted to a 16-bit state advanced by a full-period congruential     *)
(* step; an output is u = state / RngMod in [0, 1).  Every helper takes     *)
(* the state before the draw; the state after n draws is RngAfter(s, n).    *)
(***************************************************************************)
RngMod == 65536

RngStep(s) == (s * 25173 + 13849) % RngMod

\* randomNumber(max, min): floor(u * (max - min + 1)) + min
RandomNumber(s, max, min) == ((RngStep(s) * (max - min + 1)) \div RngMod) + min

\* randomItem(list): list[floor(u * len)]   (lists are 1-based here)
RandomIndex(s, len) == ((RngStep(s) * len) \div RngMod) + 1

RandomItem(s, list) == list[RandomIndex(s, Len(list))]

\* chance(p): u < p, with p given in per cent
Chance(s, pct) == RngStep(s) * 100 < pct * RngMod

\* weightedPick / the weighted loop of weightedWalk: r = u * total, subtract the
\* weights in order until r <= 0; index of the item reached, 0 if none is.
RECURSIVE WeightedIndexFrom(_, _, _, _, _)
WeightedIndexFrom(s1, weights, total, i, cum) ==
  IF i > Len(weights) THEN 0
  ELSE IF s1 * total <= (cum + weights[i]) * RngMod THEN i
  ELSE WeightedIndexFrom(s1, weights, total, i + 1, cum + weights[i])

RECURSIVE SumSeq(_)
SumSeq(q) == IF q = <<>> THEN 0 ELSE Head(q) + SumSeq(Tail(q))

WeightedIndex(s, weights) ==
  WeightedIndexFrom(RngStep(s), weights, SumSeq(weights), 1, 0)

\* weightedPick(items): the item reached, the last item if none is
WeightedPick(s, values, weights) ==
  LET i == WeightedIndex(s, weights)
  IN IF i = 0 THEN values[Len(values)] ELSE values[i]

Swap(q, i, j) == [q EXCEPT ![i] = q[j], ![j] = q[i]]

\* shuffle(list): Fisher-Yates from the last index down to the second, one draw each
RECURSIVE ShuffleFrom(_, _, _)
ShuffleFrom(s, q, i) ==
  IF i <= 1 THEN q
  ELSE ShuffleFrom(RngStep(s), Swap(q, i, ((RngStep(s) * i) \div RngMod) + 1), i - 1)

Shuffle(s, q) == ShuffleFrom(s, q, Len(q))

(***************************************************************************)
(* Loops.  A while loop of the code is its body, Step, applied until the    *)
(* loop condition fails (Done) and at most n times; halving n keeps the     *)
(* evaluation shallow.                                                     *)
(***************************************************************************)
Iterate(Step(_), Done(_), s0, n) ==
  LET RECURSIVE Go(_, _)
      Go(s, k) ==
        IF k = 0 \/ Done(s) THEN s
        ELSE IF k = 1 THEN Step(s)
        ELSE Go(Go(s, k \div 2), k - (k \div 2))
  IN Go(s0, n)

\* the generator state after n further draws
RngAfter(s, n) ==
  LET Draw(st) == [s |-> RngStep(st.s), left |-> st.left - 1]
      Drawn(st) == st.left = 0
  IN Iterate(Draw, Drawn, [s |-> s, left |-> n], n).s

(***************************************************************************)
(* Grids: grid[y][x] with 0 <= y < height, 0 <= x < width.                  *)
(***************************************************************************)
Height(g) == Cardinality(DOMAIN g)
Width(g) == Cardinality(DOMAIN g[0])

Pt(px, py) == [x |-> px, y |-> py]

Abs(n) == IF n < 0 THEN -n ELSE n
Max(a, b) == IF a > b THEN a ELSE b
Min(a, b) == IF a < b THEN a ELSE b
MinOf(S) == CHOOSE m \in S : \A o \in S : m <= o

CreateSolidGrid(width, height) ==
  [y \in 0..(height - 1) |-> [x \in 0..(width - 1) |-> WALL]]

InGrid(g, x, y) == x >= 0 /\ x < Width(g) /\ y >= 0 /\ y < Height(g)

\* set a cell when it is inside the grid and is WALL (the guarded write of the carvers)
CarveIfWall(g, x, y, tile) ==
  IF InGrid(g, x, y) /\ g[y][x] = WALL THEN [g EXCEPT ![y][x] = tile] ELSE g

\* the cells of a grid in row-major order (for y ... for x ...)
RowMajor(g) ==
  LET w == Width(g)
  IN [i \in 1..(w * Height(g)) |-> Pt((i - 1) % w, (i - 1) \div w)]

(***************************************************************************)
(* Connectivity toolkit (utils/connectivity).  A region is the sequence of  *)
(* its cells in the order the flood fill visited them (a JS Set iterates    *)
(* in insertion order).                                                    *)
(***************************************************************************)
InSeq(e, q) == \E i \in 1..Len(q) : q[i] = e

\* the tiles isFloorLike accepts
FloorLikeTiles == {t \in 0..6 : IsFloorLike(t)}

\* a fill that never leaves its start cell
FloodFillStartOnly(g, startX, startY, valid) ==
  IF InGrid(g, startX, startY) /\ g[startY][startX] \in valid
    THEN <<Pt(startX, startY)>>
  ELSE <<>>

\* floodFill(grid, startX, startY, isValid); isValid is given by the set of the
\* tiles it accepts
FloodFill(g, startX, startY, valid) ==
  LET Body(s) ==
        LET cur == s.stack[Len(s.stack)]
            rest == SubSeq(s.stack, 1, Len(s.stack) - 1)
        IN IF InSeq(cur, s.visited) THEN [s EXCEPT !.stack = rest]
           ELSE IF ~InGrid(g, cur.x, cur.y) THEN [s EXCEPT !.stack = rest]
           ELSE IF g[cur.y][cur.x] \notin valid THEN [s EXCEPT !.stack = rest]
           ELSE [stack |-> rest \o <<Pt(cur.x + 1, cur.y), Pt(cur.x - 1, cur.y),
                                     Pt(cur.x, cur.y + 1), Pt(cur.x, cur.y - 1)>>,
                 visited |-> Append(s.visited, cur)]
      Empty(s) == s.stack = <<>>
  IN Iterate(Body, Empty, [stack |-> <<Pt(startX, startY)>>, visited |-> <<>>],
             4 * Width(g) * Height(g) + 1).visited

\* a cell list that takes in every cell, walkable or not
EveryCell(g) == RowMajor(g)

FindWalkableCells(g) ==
  LET Walkable(c) == IsFloorLike(g[c.y][c.x])
  IN SelectSeq(RowMajor(g), Walkable)

FindRegions(g) ==
  LET order == RowMajor(g)
      Body(s) ==
        LET c == order[s.i]
        IN IF \E r \in 1..Len(s.regions) : InSeq(c, s.regions[r])
             THEN [s EXCEPT !.i = s.i + 1]
           ELSE IF ~IsFloorLike(g[c.y][c.x]) THEN [s EXCEPT !.i = s.i + 1]
           ELSE LET region == FloodFill(g, c.x, c.y, FloorLikeTiles)
                IN [i |-> s.i + 1,
                    regions |-> IF Len(region) > 0 THEN Append(s.regions, region)
                                ELSE s.regions]
      Past(s) == s.i > Len(order)
  IN Iterate(Body, Past, [i |-> 1, regions |-> <<>>], Len(order)).regions

CheckConnectivity(g) ==
  LET regions == FindRegions(g)
  IN [connected |-> Len(regions) <= 1, regions |-> Len(regions)]

\* a reduce that lets a later region of the same size win
RECURSIVE LargestOrLast(_, _, _)
LargestOrLast(regions, i, largest) ==
  IF i > Len(regions) THEN largest
  ELSE LargestOrLast(regions, i + 1,
                     IF Len(regions[i]) >= Len(largest) THEN regions[i] ELSE largest)

\* reduce((largest, region) => region.size > largest.size ? region : largest)
RECURSIVE LargestFrom(_, _, _)
LargestFrom(regions, i, largest) ==
  IF i > Len(regions) THEN largest
  ELSE LargestFrom(regions, i + 1,
                   IF Len(regions[i]) > Len(largest) THEN regions[i] ELSE largest)

GetLargestRegion(g) ==
  LET regions == FindRegions(g)
  IN IF Len(regions) = 0 THEN <<>> ELSE LargestFrom(regions, 2, regions[1])

\* a connectivity pass that removes nothing
KeepEveryRegion(g) == g

KeepLargestRegion(g) ==
  LET largestRegion == GetLargestRegion(g)
  IN [y \in DOMAIN g |-> [x \in DOMAIN g[y] |->
        IF IsFloorLike(g[y][x]) /\ ~InSeq(Pt(x, y), largestRegion) THEN WALL
        ELSE g[y][x]]]

Manhattan(a, b) == Abs(b.x - a.x) + Abs(b.y - a.y)

\* for key1 of region1, for key2 of region2, "if (dist < minDist)": the result is
\* the first pair, in that iteration order, at the least Manhattan distance
FindClosestPoints(region1, region2) ==
  LET n2 == Len(region2)
      P1(k) == region1[(k \div n2) + 1]
      P2(k) == region2[(k % n2) + 1]
      all == 0..(Len(region1) * n2 - 1)
      minDist == MinOf({Manhattan(P1(k), P2(k)) : k \in all})
      first == MinOf({k \in all : Manhattan(P1(k), P2(k)) = minDist})
  IN [dist |-> minDist, point1 |-> P1(first), point2 |-> P2(first)]

\* corridor from point1 to point2: the horizontal leg, then the vertical leg, then
\* the final point; only WALL cells are written
CarveCorridor(g, point1, point2, corridorTile) ==
  LET RECURSIVE Horizontal(_, _)
      Horizontal(gr, x) ==
        IF x = point2.x THEN gr
        ELSE Horizontal(CarveIfWall(gr, x, point1.y, corridorTile),
                        IF x < point2.x THEN x + 1 ELSE x - 1)
      RECURSIVE Vertical(_, _)
      Vertical(gr, y) ==
        IF y = point2.y THEN gr
        ELSE Vertical(CarveIfWall(gr, point2.x, y, corridorTile),
                      IF y < point2.y THEN y + 1 ELSE y - 1)
  IN CarveIfWall(Vertical(Horizontal(g, point1.x), point1.y),
                 point2.x, point2.y, corridorTile)

\* the closest points of the first two regions, whatever the other regions
FirstPair(regions) == FindClosestPoints(regions[1], regions[2])

\* for i, for j > i, "if (dist < minDist)": the first pair of regions, in that
\* order, whose closest points are at the least distance
BestPair(regions) ==
  LET n == Len(regions)
      pairs == {p \in (1..n) \X (1..n) : p[1] < p[2]}
      closest == [p \in pairs |-> FindClosestPoints(regions[p[1]], regions[p[2]])]
      minDist == MinOf({closest[p].dist : p \in pairs})
      best == CHOOSE p \in pairs :
                /\ closest[p].dist = minDist
                /\ \A o \in pairs : closest[o].dist = minDist =>
                      (p[1] < o[1] \/ (p[1] = o[1] /\ p[2] <= o[2]))
  IN closest[best]

RECURSIVE ConnectLoop(_, _, _)
ConnectLoop(g, regions, corridorTile) ==
  IF Len(regions) <= 1 THEN g
  ELSE LET bestPair == BestPair(regions)
           carved == CarveCorridor(g, bestPair.point1, bestPair.point2, corridorTile)
       IN ConnectLoop(carved, FindRegions(carved), corridorTile)

\* one pass of the loop of connectRegions on a grid of two or more regions: the
\* corridor between the closest points of the closest pair of regions
ConnectPass(g) ==
  LET bestPair == BestPair(FindRegions(g))
  IN CarveCorridor(g, bestPair.point1, bestPair.point2, FLOOR)

\* a connectRegions that gives up after its first pass
ConnectOnce(g) == IF Len(FindRegions(g)) <= 1 THEN g ELSE ConnectPass(g)

\* connectRegions(grid) with the default predicate and the default corridor tile
ConnectRegions(g) == ConnectLoop(g, FindRegions(g), FLOOR)

(***************************************************************************)
(* Marker placement (placeStartEnd).                                       *)
(***************************************************************************)
\* Array.prototype.sort with (a, b) => distB - distA is stable: an element comes
\* after those that are farther and after the earlier ones at the same distance.
\* The first `count` elements of the sorted list.
FarthestFirst(q, start, count) ==
  LET n == Len(q)
      d == [i \in 1..n |-> Manhattan(start, q[i])]
      rank == [i \in 1..n |->
                 1 + Cardinality({j \in 1..n : d[j] > d[i] \/ (d[j] = d[i] /\ j < i)})]
  IN [r \in 1..count |-> q[CHOOSE i \in 1..n : rank[i] = r]]

\* a group that takes in every remaining cell
FarCountAll(n) == n

\* the size of the "farthest 20%" group: max(1, floor(n * 0.2))
FarCount(n) == Max(1, n \div 5)

PlaceStartEnd(g, s) ==
  LET walkable == FindWalkableCells(g)
  IN IF Len(walkable) < 2
       THEN [grid |-> g, rng |-> s, start |-> Null, end |-> Null]
     ELSE LET start == RandomItem(s, walkable)
              g1 == [g EXCEPT ![start.y][start.x] = START]
              NotStart(c) == c.x # start.x \/ c.y # start.y
              remaining == SelectSeq(walkable, NotStart)
              farCandidates == FarthestFirst(remaining, start, FarCount(Len(remaining)))
              end == RandomItem(RngStep(s), farCandidates)
          IN [grid |-> [g1 EXCEPT ![end.y][end.x] = END],
              rng |-> RngAfter(s, 2), start |-> start, end |-> end]

NoMarkers == [start |-> Null, end |-> Null]

(***************************************************************************)
(* Cellular-automata cave (generate/cave).                                 *)
(***************************************************************************)
\* count of FLOOR cells in the (2 radius + 1)^2 window around row i, column j,
\* clipped to the grid
SumLens(g, i, j, radius) ==
  Cardinality({c \in ((i - radius)..(i + radius)) \X ((j - radius)..(j + radius)) :
                 /\ c[1] >= 0 /\ c[1] < Height(g) /\ c[2] >= 0 /\ c[2] < Width(g)
                 /\ g[c[1]][c[2]] = FLOOR})

\* the switch with the threshold of the 3x3 window at four
Apply45SwitchFour(g, i, j) ==
  IF SumLens(g, i, j, 2) = 0 THEN FLOOR
  ELSE IF SumLens(g, i, j, 1) >= 4 THEN FLOOR ELSE WALL

Apply45Switch(g, i, j) ==
  IF SumLens(g, i, j, 2) = 0 THEN FLOOR
  ELSE IF SumLens(g, i, j, 1) >= 5 THEN FLOOR ELSE WALL

Apply45Rule(g) ==
  LET height == Height(g)
      width == Width(g)
  IN [j \in DOMAIN g |-> [i \in DOMAIN g[j] |->
        IF i = 0 \/ j = 0 \/ i = width - 1 \/ j = height - 1 THEN WALL
        ELSE Apply45Switch(g, j, i)]]

\* the initial grid: one chance(initialDensity) draw per cell, rows outermost
CaveInitialGrid(n, s, density) ==
  [y \in 0..(n - 1) |-> [x \in 0..(n - 1) |->
     IF Chance(RngAfter(s, y * n + x), density) THEN FLOOR ELSE WALL]]

CaveEnsureConnectivity(g, ensureConnected, connectDisconnected) ==
  IF ensureConnected
    THEN IF connectDisconnected THEN ConnectRegions(g) ELSE KeepLargestRegion(g)
  ELSE g

(***************************************************************************)
(* Drunkard's walk (generate/drunkardWalk).                                *)
(***************************************************************************)
\* the four diagonal directions
DiagonalDirections == <<[dx |-> -1, dy |-> -1], [dx |-> 1, dy |-> 1],
                        [dx |-> 1, dy |-> -1], [dx |-> -1, dy |-> 1]>>

\* north, south, east, west
DIRECTIONS == <<[dx |-> 0, dy |-> -1], [dx |-> 0, dy |-> 1],
                [dx |-> 1, dy |-> 0], [dx |-> -1, dy |-> 0]>>

CountTiles(g, tile) ==
  Cardinality({c \in (DOMAIN g) \X (DOMAIN g[0]) : g[c[1]][c[2]] = tile})

CountFloors(g) == CountTiles(g, FLOOR)

\* anywhere in the grid, the border included
IsInGrid(x, y, width, height) == x >= 0 /\ x < width /\ y >= 0 /\ y < height

\* inside the grid and off the border
IsInBounds(x, y, width, height) == x > 0 /\ x < width - 1 /\ y > 0 /\ y < height - 1

TargetFloors(n, fillPercentage) == (n * n * fillPercentage) \div 100

\* a share of a walker that is one or two floors too large
WalkerStepsWide(targetFloors, numWalkers) == (targetFloors \div numWalkers) + 2

\* Math.ceil(targetFloors / numWalkers)
WalkerSteps(targetFloors, numWalkers) == (targetFloors + numWalkers - 1) \div numWalkers

\* one pass of the loop of walkDrunk: carve or count, draw a direction, move when
\* the new cell is in bounds
WalkDrunkBody(g, w, s, width, height) ==
  LET carve == g[w.y][w.x] = WALL
      dir == RandomItem(s, DIRECTIONS)
      newX == w.x + dir.dx
      newY == w.y + dir.dy
      move == IsInBounds(newX, newY, width, height)
  IN [grid |-> IF carve THEN [g EXCEPT ![w.y][w.x] = FLOOR] ELSE g,
      walker |-> [w EXCEPT !.stepsWithoutCarving = IF carve THEN 0 ELSE @ + 1,
                           !.x = IF move THEN newX ELSE @,
                           !.y = IF move THEN newY ELSE @],
      rng |-> RngStep(s)]

\* the interior FLOOR cells in row-major order (the start candidates of a walker)
InteriorFloorTiles(g, width, height) ==
  LET Inner(c) == /\ c.x >= 1 /\ c.x < width - 1 /\ c.y >= 1 /\ c.y < height - 1
                  /\ g[c.y][c.x] = FLOOR
  IN SelectSeq(RowMajor(g), Inner)

\* the weight of a direction in weightedWalk: 0 when the step leaves the interior,
\* else 1 + the number of WALL cells in the 3x3 window around the new cell
DirectionWeight(g, x, y, dir, width, height) ==
  LET newX == x + dir.dx
      newY == y + dir.dy
  IN IF ~IsInBounds(newX, newY, width, height) THEN 0
     ELSE 1 + Cardinality({d \in (-1..1) \X (-1..1) :
                             /\ newX + d[1] >= 0 /\ newX + d[1] < width
                             /\ newY + d[2] >= 0 /\ newY + d[2] < height
                             /\ g[newY + d[2]][newX + d[1]] = WALL})

\* one pass of the loop of weightedWalk; `stop` is the break on a zero total weight
WeightedWalkBody(g, w, s, width, height) ==
  LET g1 == [g EXCEPT ![w.y][w.x] = FLOOR]
      weights == [i \in 1..Len(DIRECTIONS) |->
                    DirectionWeight(g1, w.x, w.y, DIRECTIONS[i], width, height)]
      totalWeight == SumSeq(weights)
      i == WeightedIndex(s, weights)
      selectedDir == IF i = 0 THEN DIRECTIONS[1] ELSE DIRECTIONS[i]
      newX == w.x + selectedDir.dx
      newY == w.y + selectedDir.dy
      move == IsInBounds(newX, newY, width, height)
  IN IF totalWeight = 0
       THEN [grid |-> g1, walker |-> [w EXCEPT !.steps = @ + 1], rng |-> s, stop |-> TRUE]
     ELSE [grid |-> g1,
           walker |-> [w EXCEPT !.steps = @ + 1,
                                !.x = IF move THEN newX ELSE @,
                                !.y = IF move THEN newY ELSE @],
           rng |-> RngStep(s), stop |-> FALSE]

(***************************************************************************)
(* Binary space partitioning (generate/bsp).  The tree is a function from   *)
(* node numbers to nodes: the root is 1, the children of node i are 2i      *)
(* (left) and 2i + 1 (right).                                              *)
(***************************************************************************)
BSPNode(x, y, width, height) ==
  [x |-> x, y |-> y, width |-> width, height |-> height, room |-> Null]

HasChildren(t, id) == (2 * id) \in DOMAIN t

\* splitNode: the coin is drawn first, the aspect ratio may overrule it, and the
\* split offset is drawn only when the node is large enough
SplitNode(t, id, minSize, s) ==
  LET node == t[id]
      coin == Chance(s, 50)
      splitHorizontally ==
        IF node.width > node.height /\ 4 * node.width >= 5 * node.height THEN FALSE
        ELSE IF node.height > node.width /\ 4 * node.height >= 5 * node.width THEN TRUE
        ELSE coin
      max == (IF splitHorizontally THEN node.height ELSE node.width) - minSize
      split == RandomNumber(RngStep(s), max, minSize)
      left == IF splitHorizontally THEN BSPNode(node.x, node.y, node.width, split)
              ELSE BSPNode(node.x, node.y, split, node.height)
      right == IF splitHorizontally
                 THEN BSPNode(node.x, node.y + split, node.width, node.height - split)
               ELSE BSPNode(node.x + split, node.y, node.width - split, node.height)
  IN IF max <= minSize THEN [tree |-> t, rng |-> RngStep(s), split |-> FALSE]
     ELSE [tree |-> [n \in DOMAIN t \cup {2 * id, 2 * id + 1} |->
                       IF n = 2 * id THEN left ELSE IF n = 2 * id + 1 THEN right ELSE t[n]],
           rng |-> RngAfter(s, 2), split |-> TRUE]

\* buildTree with the depth test one level late
RECURSIVE BuildTreeDeeper(_, _, _, _, _)
BuildTreeDeeper(st, id, minSize, maxDepth, currentDepth) ==
  IF currentDepth > maxDepth THEN st
  ELSE LET r == SplitNode(st.tree, id, minSize, st.rng)
           next == [tree |-> r.tree, rng |-> r.rng]
       IN IF r.split
            THEN BuildTreeDeeper(BuildTreeDeeper(next, 2 * id, minSize, maxDepth,
                                                 currentDepth + 1),
                                 2 * id + 1, minSize, maxDepth, currentDepth + 1)
          ELSE next

RECURSIVE BuildTree(_, _, _, _, _)
BuildTree(st, id, minSize, maxDepth, currentDepth) ==
  IF currentDepth >= maxDepth THEN st
  ELSE LET r == SplitNode(st.tree, id, minSize, st.rng)
           next == [tree |-> r.tree, rng |-> r.rng]
       IN IF r.split
            THEN BuildTree(BuildTree(next, 2 * id, minSize, maxDepth, currentDepth + 1),
                           2 * id + 1, minSize, maxDepth, currentDepth + 1)
          ELSE next

\* the room of a leaf when the padding is left out of the largest room size
LeafRoomUnpadded(node, minRoomSize, padding, s) ==
  LET maxRoomWidth == node.width
      maxRoomHeight == node.height
      roomWidth == RandomNumber(s, maxRoomWidth, minRoomSize)
      roomHeight == RandomNumber(RngStep(s), maxRoomHeight, minRoomSize)
      s2 == RngAfter(s, 2)
      maxX == node.width - roomWidth - padding
      maxY == node.height - roomHeight - padding
      s3 == IF maxX > padding THEN RngStep(s2) ELSE s2
      s4 == IF maxY > padding THEN RngStep(s3) ELSE s3
      roomX == node.x + (IF maxX > padding THEN RandomNumber(s2, maxX, padding) ELSE padding)
      roomY == node.y + (IF maxY > padding THEN RandomNumber(s3, maxY, padding) ELSE padding)
  IN IF maxRoomWidth < minRoomSize \/ maxRoomHeight < minRoomSize
       THEN [room |-> Null, rng |-> s]
     ELSE [room |-> [x |-> roomX, y |-> roomY, width |-> roomWidth, height |-> roomHeight],
           rng |-> s4]

\* the room of a leaf: width, height, then x and y offsets, each offset drawn only
\* when there is more than one place for it
LeafRoom(node, minRoomSize, padding, s) ==
  LET maxRoomWidth == node.width - padding * 2
      maxRoomHeight == node.height - padding * 2
      roomWidth == RandomNumber(s, maxRoomWidth, minRoomSize)
      roomHeight == RandomNumber(RngStep(s), maxRoomHeight, minRoomSize)
      s2 == RngAfter(s, 2)
      maxX == node.width - roomWidth - padding
      maxY == node.height - roomHeight - padding
      s3 == IF maxX > padding THEN RngStep(s2) ELSE s2
      s4 == IF maxY > padding THEN RngStep(s3) ELSE s3
      roomX == node.x + (IF maxX > padding THEN RandomNumber(s2, maxX, padding) ELSE padding)
      roomY == node.y + (IF maxY > padding THEN RandomNumber(s3, maxY, padding) ELSE padding)
  IN IF maxRoomWidth < minRoomSize \/ maxRoomHeight < minRoomSize
       THEN [room |-> Null, rng |-> s]
     ELSE [room |-> [x |-> roomX, y |-> roomY, width |-> roomWidth, height |-> roomHeight],
           rng |-> s4]

RECURSIVE CreateRooms(_, _, _, _)
CreateRooms(st, id, minRoomSize, padding) ==
  IF HasChildren(st.tree, id)
    THEN CreateRooms(CreateRooms(st, 2 * id, minRoomSize, padding),
                     2 * id + 1, minRoomSize, padding)
  ELSE LET r == LeafRoom(st.tree[id], minRoomSize, padding, st.rng)
       IN [tree |-> [st.tree EXCEPT ![id].room = r.room], rng |-> r.rng]

InRoom(room, x, y) ==
  /\ x >= room.x /\ x < room.x + room.width
  /\ y >= room.y /\ y < room.y + room.height

\* drawAllRooms: every cell of every room becomes FLOOR
DrawAllRooms(g, t) ==
  [y \in DOMAIN g |-> [x \in DOMAIN g[y] |->
     IF \E id \in DOMAIN t : t[id].room # Null /\ InRoom(t[id].room, x, y)
       THEN FLOOR ELSE g[y][x]]]

\* BSPNode.getRoom: the node's own room, else the first room of the left subtree,
\* else the first room of the right subtree
RECURSIVE GetRoom(_, _)
GetRoom(t, id) ==
  IF t[id].room # Null THEN t[id].room
  ELSE IF ~HasChildren(t, id) THEN Null
  ELSE LET leftRoom == GetRoom(t, 2 * id)
       IN IF leftRoom # Null THEN leftRoom ELSE GetRoom(t, 2 * id + 1)

DrawHorizontalCorridor(g, x1, x2, y, corridorTile) ==
  [yy \in DOMAIN g |-> [xx \in DOMAIN g[yy] |->
     IF yy = y /\ xx >= Min(x1, x2) /\ xx <= Max(x1, x2) /\ g[yy][xx] = WALL
       THEN corridorTile ELSE g[yy][xx]]]

DrawVerticalCorridor(g, y1, y2, x, corridorTile) ==
  [yy \in DOMAIN g |-> [xx \in DOMAIN g[yy] |->
     IF xx = x /\ yy >= Min(y1, y2) /\ yy <= Max(y1, y2) /\ g[yy][xx] = WALL
       THEN corridorTile ELSE g[yy][xx]]]

\* a corridor of the horizontal leg alone
DrawCorridorOneLeg(g, x1, y1, x2, y2, s) ==
  DrawHorizontalCorridor(g, x1, x2, y1, CORRIDOR)

\* drawCorridor with the CORRIDOR tile: one coin for the order of the two legs
DrawCorridor(g, x1, y1, x2, y2, s) ==
  IF Chance(s, 50)
    THEN DrawVerticalCorridor(DrawHorizontalCorridor(g, x1, x2, y1, CORRIDOR),
                              y1, y2, x2, CORRIDOR)
  ELSE DrawHorizontalCorridor(DrawVerticalCorridor(g, y1, y2, x1, CORRIDOR),
                              x1, x2, y2, CORRIDOR)

RoomCenter(room) ==
  Pt(room.x + (room.width \div 2), room.y + (room.height \div 2))

RECURSIVE ConnectRoomsInTree(_, _, _)
ConnectRoomsInTree(st, t, id) ==
  IF ~HasChildren(t, id) THEN st
  ELSE LET below == ConnectRoomsInTree(ConnectRoomsInTree(st, t, 2 * id), t, 2 * id + 1)
           leftRoom == GetRoom(t, 2 * id)
           rightRoom == GetRoom(t, 2 * id + 1)
           leftCenter == RoomCenter(leftRoom)
           rightCenter == RoomCenter(rightRoom)
       IN IF leftRoom # Null /\ rightRoom # Null
            THEN [grid |-> DrawCorridor(below.grid, leftCenter.x, leftCenter.y,
                                        rightCenter.x, rightCenter.y, below.rng),
                  rng |-> RngStep(below.rng)]
          ELSE below

\* the cells off the border in row-major order
InteriorCells(g) ==
  LET w == Width(g) - 2
  IN [i \in 1..(w * (Height(g) - 2)) |-> Pt(1 + ((i - 1) % w), 1 + ((i - 1) \div w))]

\* a candidate test that looks at the cell alone
DoorCandidateAnywhere(g, x, y) == g[y][x] = CORRIDOR

\* whether addDoors may turn the CORRIDOR at (x, y) into a door
DoorCandidate(g, x, y) ==
  LET neighbors == {g[y - 1][x], g[y + 1][x], g[y][x - 1], g[y][x + 1]}
  IN g[y][x] = CORRIDOR /\ FLOOR \in neighbors /\ WALL \in neighbors

\* a door placement that walls up the corridor cell of every candidate
AddDoorsAsWalls(g, s, doorChance) ==
  [grid |-> [y \in DOMAIN g |-> [x \in DOMAIN g[y] |->
               IF x > 0 /\ x < Width(g) - 1 /\ y > 0 /\ y < Height(g) - 1
                  /\ DoorCandidate(g, x, y)
                 THEN WALL ELSE g[y][x]]],
   rng |-> s]

\* addDoors: a row-major scan of the interior that writes the grid as it goes; a
\* coin is drawn only for a candidate
AddDoors(g, s, doorChance) ==
  LET order == InteriorCells(g)
      Body(st) ==
        LET c == order[st.i]
        IN IF DoorCandidate(st.grid, c.x, c.y)
             THEN [grid |-> IF Chance(st.rng, doorChance)
                              THEN [st.grid EXCEPT ![c.y][c.x] = DOOR] ELSE st.grid,
                   rng |-> RngStep(st.rng), i |-> st.i + 1]
           ELSE [st EXCEPT !.i = st.i + 1]
      Past(st) == st.i > Len(order)
      r == Iterate(Body, Past, [grid |-> g, rng |-> s, i |-> 1], Len(order))
  IN [grid |-> r.grid, rng |-> r.rng]

(***************************************************************************)
(* Wave function collapse (generateWFC).  A cell of the superposition is    *)
(* [collapsed, options, tile]; options is the list of the tiles still       *)
(* possible, in the order the code keeps them.                             *)
(***************************************************************************)
AllTiles == <<WALL, FLOOR, DOOR, CORRIDOR>>

DirNames == <<"north", "south", "east", "west">>

WFC_DIRECTIONS ==
  [d \in {"north", "south", "east", "west"} |->
     CASE d = "north" -> [dx |-> 0, dy |-> -1, opposite |-> "south"]
       [] d = "south" -> [dx |-> 0, dy |-> 1, opposite |-> "north"]
       [] d = "east" -> [dx |-> 1, dy |-> 0, opposite |-> "west"]
       [] d = "west" -> [dx |-> -1, dy |-> 0, opposite |-> "east"]]

\* the tiles allowed next to a tile; the table has the same list in all four
\* directions
ADJACENCY_RULES ==
  [t \in {WALL, FLOOR, DOOR, CORRIDOR} |->
     [d \in {"north", "south", "east", "west"} |->
        CASE t = WALL -> <<WALL, FLOOR, CORRIDOR>>
          [] t = FLOOR -> <<FLOOR, WALL, DOOR, CORRIDOR>>
          [] t = DOOR -> <<FLOOR, CORRIDOR>>
          [] t = CORRIDOR -> <<CORRIDOR, FLOOR, DOOR, WALL>>]]

TILE_WEIGHTS ==
  [t \in {WALL, FLOOR, DOOR, CORRIDOR} |->
     CASE t = WALL -> 2 [] t = FLOOR -> 5 [] t = DOOR -> 1 [] t = CORRIDOR -> 3]

\* tile: null of a cell that is not collapsed
NoTile == -1

CreateSuperposition(width, height) ==
  [y \in 0..(height - 1) |-> [x \in 0..(width - 1) |->
     IF x = 0 \/ y = 0 \/ x = width - 1 \/ y = height - 1
       THEN [collapsed |-> TRUE, options |-> <<WALL>>, tile |-> WALL]
     ELSE [collapsed |-> FALSE, options |-> AllTiles, tile |-> NoTile]]]

\* the seed disc: interior cells within Manhattan distance floor(tiles / 6) of the
\* centre may only become FLOOR or CORRIDOR
SeedCentre(c, n) ==
  LET centerX == n \div 2
      centerY == n \div 2
      seedRadius == n \div 6
  IN [y \in DOMAIN c |-> [x \in DOMAIN c[y] |->
        IF /\ Abs(x - centerX) <= seedRadius /\ Abs(y - centerY) <= seedRadius
           /\ x > 0 /\ x < n - 1 /\ y > 0 /\ y < n - 1
           /\ Abs(x - centerX) + Abs(y - centerY) <= seedRadius
          THEN [c[y][x] EXCEPT !.options = <<FLOOR, CORRIDOR>>]
        ELSE c[y][x]]]

\* Infinity, the entropy of a collapsed cell: above every number of options
Infinity == Len(AllTiles) + 1

GetEntropy(cell) == IF cell.collapsed THEN Infinity ELSE Len(cell.options)

\* findLowestEntropyCell: the row-major scan that restarts the candidate list at
\* every new positive minimum and appends every cell whose entropy equals the
\* minimum so far (Infinity === Infinity included); then one draw among them
LowestEntropyCandidates(c) ==
  LET order == RowMajor(c)
      Body(st) ==
        LET p == order[st.i]
            entropy == GetEntropy(c[p.y][p.x])
        IN IF entropy < st.minEntropy /\ entropy > 0
             THEN [minEntropy |-> entropy, candidates |-> <<p>>, i |-> st.i + 1]
           ELSE IF entropy = st.minEntropy
             THEN [st EXCEPT !.candidates = Append(@, p), !.i = st.i + 1]
           ELSE [st EXCEPT !.i = st.i + 1]
      Past(st) == st.i > Len(order)
  IN Iterate(Body, Past, [minEntropy |-> Infinity, candidates |-> <<>>, i |-> 1],
             Len(order)).candidates

FindLowestEntropyCell(c, s) ==
  LET candidates == LowestEntropyCandidates(c)
  IN IF Len(candidates) > 0
       THEN [coord |-> RandomItem(s, candidates), rng |-> RngStep(s)]
     ELSE [coord |-> Null, rng |-> s]

\* collapseCell: null (NoTile) on an empty option list, else a weighted pick
CollapseCell(cell, s) ==
  IF Len(cell.options) = 0 THEN [cell |-> cell, chosen |-> NoTile, rng |-> s]
  ELSE LET weights == [i \in 1..Len(cell.options) |-> TILE_WEIGHTS[cell.options[i]]]
           chosen == WeightedPick(s, cell.options, weights)
       IN [cell |-> [collapsed |-> TRUE, options |-> <<chosen>>, tile |-> chosen],
           chosen |-> chosen, rng |-> RngStep(s)]

GetValidNeighborTiles(tile, direction) ==
  IF tile \in DOMAIN ADJACENCY_RULES THEN ADJACENCY_RULES[tile][direction] ELSE <<>>

\* the options left to a neighbour in direction dirName of a cell: those some
\* option of the cell allows and that allow some option of the cell back
NewOptions(cell, neighbor, dirName) ==
  LET validTiles == {t \in 0..6 : \E i \in 1..Len(cell.options) :
                        InSeq(t, GetValidNeighborTiles(cell.options[i], dirName))}
      ReverseValid(option) ==
        \E i \in 1..Len(cell.options) :
          InSeq(cell.options[i],
                GetValidNeighborTiles(option, WFC_DIRECTIONS[dirName].opposite))
      Keep(t) == t \in validTiles /\ ReverseValid(t)
  IN SelectSeq(neighbor.options, Keep)

\* the body of the for loop of propagate for one direction, on the state
\* [cells, stack, visited, ok] and the current cell `current`
PropagateDirection(st, current, dirName) ==
  LET dir == WFC_DIRECTIONS[dirName]
      nx == current.x + dir.dx
      ny == current.y + dir.dy
      c == st.cells
      neighbor == c[ny][nx]
      newOptions == NewOptions(c[current.y][current.x], neighbor, dirName)
      narrowed == IF Len(newOptions) = 1
                    THEN [collapsed |-> TRUE, options |-> newOptions, tile |-> newOptions[1]]
                  ELSE [neighbor EXCEPT !.options = newOptions]
  IN IF ~st.ok THEN st
     ELSE IF ny < 0 \/ ny >= Height(c) \/ nx < 0 \/ nx >= Width(c) THEN st
     ELSE IF neighbor.collapsed THEN st
     ELSE IF Len(newOptions) < Len(neighbor.options)
       THEN IF Len(newOptions) = 0
              THEN [st EXCEPT !.cells[ny][nx].options = newOptions, !.ok = FALSE]
            ELSE [st EXCEPT !.cells[ny][nx] = narrowed,
                            !.stack = Append(@, Pt(nx, ny))]
     ELSE st

\* propagate: ok is FALSE when an option list became empty (the scan stops there)
Propagate(c, x, y) ==
  LET Body(st) ==
        LET current == st.stack[Len(st.stack)]
            popped == [st EXCEPT !.stack = SubSeq(@, 1, Len(@) - 1)]
            seen == [popped EXCEPT !.visited = Append(@, current)]
        IN IF InSeq(current, st.visited) THEN popped
           ELSE PropagateDirection(
                  PropagateDirection(
                    PropagateDirection(
                      PropagateDirection(seen, current, DirNames[1]),
                      current, DirNames[2]),
                    current, DirNames[3]),
                  current, DirNames[4])
      Stop(st) == st.stack = <<>> \/ ~st.ok
      r == Iterate(Body, Stop,
                   [cells |-> c, stack |-> <<Pt(x, y)>>, visited |-> <<>>, ok |-> TRUE],
                   4 * Width(c) * Height(c) + 1)
  IN [cells |-> r.cells, success |-> r.ok]

\* a history that is never trimmed
KeepHistory(h, maxBacktracks) == h

\* history.splice(0, length - maxBacktracks) once the length exceeds 2 maxBacktracks
TrimHistory(h, maxBacktracks) ==
  IF Len(h) > maxBacktracks * 2
    THEN SubSeq(h, Len(h) - maxBacktracks + 1, Len(h))
  ELSE h

\* the grid of the snapshot with the first option of the snapshot's cell dropped
\* when it has more than one
Restore(prev) ==
  LET prevCell == prev.grid[prev.coord.y][prev.coord.x]
  IN IF Len(prevCell.options) > 1
       THEN [prev.grid EXCEPT ![prev.coord.y][prev.coord.x].options = Tail(@)]
     ELSE prev.grid

\* a conversion that loses the last row of cells
ResultShortGrid(c) ==
  [y \in {r \in DOMAIN c : r + 1 \in DOMAIN c} |-> [x \in DOMAIN c[y] |->
     IF c[y][x].collapsed THEN c[y][x].tile ELSE WALL]]

\* the conversion to a grid of tiles
ResultGrid(c) ==
  [y \in DOMAIN c |-> [x \in DOMAIN c[y] |->
     IF ~c[y][x].collapsed
       THEN IF Len(c[y][x].options) > 0 THEN c[y][x].options[1] ELSE WALL
     ELSE c[y][x].tile]]

(***************************************************************************)
(* Mazes (generateMaze).                                                   *)
(***************************************************************************)
\* the four directions with the next cell one step away
MazeDirectionsNear ==
  <<[dx |-> 0, dy |-> -1, wx |-> 0, wy |-> -1], [dx |-> 0, dy |-> 1, wx |-> 0, wy |-> 1],
    [dx |-> 1, dy |-> 0, wx |-> 1, wy |-> 0], [dx |-> -1, dy |-> 0, wx |-> -1, wy |-> 0]>>

\* north, south, east, west: the cell two steps away and the wall cell between
MAZE_DIRECTIONS ==
  <<[dx |-> 0, dy |-> -2, wx |-> 0, wy |-> -1], [dx |-> 0, dy |-> 2, wx |-> 0, wy |-> 1],
    [dx |-> 2, dy |-> 0, wx |-> 1, wy |-> 0], [dx |-> -2, dy |-> 0, wx |-> -1, wy |-> 0]>>

\* isInBounds of the maze generator: anywhere in the grid, the border included
MazeIsInBounds(x, y, width, height) == x >= 0 /\ x < width /\ y >= 0 /\ y < height

\* the directions of MAZE_DIRECTIONS, in the order of `directions`, that lead from
\* (x, y) to a WALL cell inside the grid
UnvisitedNeighbors(g, x, y, directions) ==
  LET Open(dir) == /\ MazeIsInBounds(x + dir.dx, y + dir.dy, Width(g), Height(g))
                   /\ g[y + dir.dy][x + dir.dx] = WALL
  IN SelectSeq(directions, Open)

\* one pass of the loop of recursiveBacktracking: shuffle, then pop or carve and push
RecursiveBacktrackingBody(g, stk, s) ==
  LET current == stk[Len(stk)]
      unvisitedNeighbors ==
        UnvisitedNeighbors(g, current.x, current.y, Shuffle(s, MAZE_DIRECTIONS))
      dir == unvisitedNeighbors[1]
      nx == current.x + dir.dx
      ny == current.y + dir.dy
  IN IF Len(unvisitedNeighbors) = 0
       THEN [grid |-> g, stack |-> SubSeq(stk, 1, Len(stk) - 1),
             rng |-> RngAfter(s, Len(MAZE_DIRECTIONS) - 1)]
     ELSE [grid |-> [g EXCEPT ![current.y + dir.wy][current.x + dir.wx] = FLOOR,
                              ![ny][nx] = FLOOR],
           stack |-> Append(stk, Pt(nx, ny)),
           rng |-> RngAfter(s, Len(MAZE_DIRECTIONS) - 1)]

\* addFrontier: the frontier entries of the WALL cells two steps from (x, y)
AddFrontier(g, x, y) ==
  LET open == UnvisitedNeighbors(g, x, y, MAZE_DIRECTIONS)
  IN [i \in 1..Len(open) |->
        [x |-> x + open[i].dx, y |-> y + open[i].dy,
         wx |-> x + open[i].wx, wy |-> y + open[i].wy]]

\* one pass of the loop of primsAlgorithm: draw an entry, remove it, carve when its
\* cell is still WALL
PrimsBody(g, front, s) ==
  LET index == RandomNumber(s, Len(front) - 1, 0) + 1
      cell == front[index]
      rest == SubSeq(front, 1, index - 1) \o SubSeq(front, index + 1, Len(front))
      carved == [g EXCEPT ![cell.wy][cell.wx] = FLOOR, ![cell.y][cell.x] = FLOOR]
  IN IF g[cell.y][cell.x] = WALL
       THEN [grid |-> carved, frontier |-> rest \o AddFrontier(carved, cell.x, cell.y),
             rng |-> RngStep(s)]
     ELSE [grid |-> g, frontier |-> rest, rng |-> RngStep(s)]

\* the grid recursive division starts from: WALL border, FLOOR inside
OpenGrid(n) ==
  [y \in 0..(n - 1) |-> [x \in 0..(n - 1) |->
     IF x = 0 \/ y = 0 \/ x = n - 1 \/ y = n - 1 THEN WALL ELSE FLOOR]]

\* the wall of one division with its passage at (px, py)
DivisionWall(g, x, y, width, height, horizontal, wx, wy, px, py) ==
  [j \in DOMAIN g |-> [i \in DOMAIN g[j] |->
     IF horizontal
       THEN IF j = wy /\ i >= x /\ i < x + width /\ i # px THEN WALL ELSE g[j][i]
     ELSE IF i = wx /\ j >= y /\ j < y + height /\ j # py THEN WALL ELSE g[j][i]]]

\* st.divided records the <<width, height>> of every region a wall was put in
RECURSIVE RecursiveDivision(_, _, _, _, _, _)
RecursiveDivision(st, x, y, width, height, orientation) ==
  IF width < 3 \/ height < 3 THEN st
  ELSE LET horizontal == orientation = "horizontal"
           wy == IF horizontal
                   THEN y + (RandomNumber(st.rng, (height - 2) \div 2, 0) * 2 + 1)
                 ELSE y
           wx == IF horizontal THEN x
                 ELSE x + (RandomNumber(st.rng, (width - 2) \div 2, 0) * 2 + 1)
           px == IF horizontal
                   THEN x + (RandomNumber(RngStep(st.rng), (width \div 2) - 1, 0) * 2)
                 ELSE wx
           py == IF horizontal THEN wy
                 ELSE y + (RandomNumber(RngStep(st.rng), (height \div 2) - 1, 0) * 2)
           walled == [grid |-> DivisionWall(st.grid, x, y, width, height, horizontal,
                                            wx, wy, px, py),
                      rng |-> RngAfter(st.rng, 2),
                      divided |-> st.divided \cup {<<width, height>>}]
           topHeight == wy - y
           bottomHeight == height - topHeight - 1
           leftWidth == wx - x
           rightWidth == width - leftWidth - 1
       IN IF horizontal
            THEN RecursiveDivision(
                   RecursiveDivision(walled, x, y, width, topHeight,
                     IF 2 * width > 3 * topHeight THEN "vertical" ELSE "horizontal"),
                   x, wy + 1, width, bottomHeight,
                   IF 2 * width > 3 * bottomHeight THEN "vertical" ELSE "horizontal")
          ELSE RecursiveDivision(
                 RecursiveDivision(walled, x, y, leftWidth, height,
                   IF 2 * height > 3 * leftWidth THEN "horizontal" ELSE "vertical"),
                 wx + 1, y, rightWidth, height,
                 IF 2 * height > 3 * rightWidth THEN "horizontal" ELSE "vertical")

\* a scan in the given order that draws a coin for every WALL cell it meets and
\* turns the cell into FLOOR when the coin says so
OpenWalls(g, s, order, pct) ==
  LET Body(st) ==
        LET c == order[st.i]
        IN IF st.grid[c.y][c.x] = WALL
             THEN [grid |-> IF Chance(st.rng, pct)
                              THEN [st.grid EXCEPT ![c.y][c.x] = FLOOR] ELSE st.grid,
                   rng |-> RngStep(st.rng), i |-> st.i + 1]
           ELSE [st EXCEPT !.i = st.i + 1]
      Past(st) == st.i > Len(order)
      r == Iterate(Body, Past, [grid |-> g, rng |-> s, i |-> 1], Len(order))
  IN [grid |-> r.grid, rng |-> r.rng]

\* the cells addLoops visits: y = 2, 4, ... < height - 2, x = 2, 4, ... < width - 2
LoopCells(g) ==
  LET Even(c) == /\ c.x % 2 = 0 /\ c.y % 2 = 0 /\ c.x >= 2 /\ c.y >= 2
                 /\ c.x < Width(g) - 2 /\ c.y < Height(g) - 2
  IN SelectSeq(RowMajor(g), Even)

AddLoops(g, s, loopChance) == OpenWalls(g, s, LoopCells(g), loopChance)

\* the openness scan of generateMaze
AddOpenness(g, s, openness) == OpenWalls(g, s, InteriorCells(g), openness)

\* addStartEnd: START on the first FLOOR cell of the interior in row-major order,
\* then END on the last FLOOR cell of the interior
AddStartEnd(g) ==
  LET order == InteriorCells(g)
      firstFloor == {i \in 1..Len(order) : g[order[i].y][order[i].x] = FLOOR}
      start == IF firstFloor = {} THEN Null ELSE order[MinOf(firstFloor)]
      g1 == IF start = Null THEN g ELSE [g EXCEPT ![start.y][start.x] = START]
      lastFloor == {i \in 1..Len(order) : g1[order[i].y][order[i].x] = FLOOR}
      end == IF lastFloor = {} THEN Null
             ELSE order[CHOOSE i \in lastFloor : \A o \in lastFloor : o <= i]
  IN [grid |-> IF end = Null THEN g1 ELSE [g1 EXCEPT ![end.y][end.x] = END],
      start |-> start, end |-> end]

(***************************************************************************)
(* The pre-authored map of the "default" kind.  Its tiles are not part of   *)
(* this model: it stands for one fixed square grid, the same whatever size  *)
(* is asked for.                                                           *)
(***************************************************************************)
StaticSize == 32

StaticGrid == OpenGrid(StaticSize)

(***************************************************************************)
(* Requests.  A request names a generator kind, a size, the options and    *)
(* the seed; options are given as the generators read them, probabilities  *)
(* in per cent.                                                            *)
(***************************************************************************)
Sizes == MinSize..MaxSize
Seeds == 0..MaxSeed

CaveOptions ==
  [initialDensity : {0, 45}, iterations : {0, 1, 3}, ensureConnected : BOOLEAN,
   connectDisconnected : BOOLEAN, placeMarkers : BOOLEAN]

NoWalker == [x |-> 0, y |-> 0, stepsWithoutCarving |-> 0, steps |-> 0,
             index |-> 0, target |-> 0]
NoStats == [iterations |-> 0, backtracks |-> 0, connected |-> TRUE, regions |-> 0,
            isPerfect |-> FALSE]

InitLocals ==
  /\ pc = "request"
  /\ grid = Null
  /\ outcome = "pending"
  /\ markers = NoMarkers
  /\ pre = Null
  /\ iter = 0
  /\ walker = NoWalker
  /\ tree = Null
  /\ cells = Null
  /\ history = <<>>
  /\ stats = NoStats
  /\ stack = <<>>
  /\ frontier = <<>>

InitCave ==
  /\ kind = "caves"
  /\ tiles \in Sizes
  /\ opts \in CaveOptions
  /\ rng \in Seeds
  /\ InitLocals

\* variant "spiral" stands for a variant name the generator does not know
DrunkardVariants == {"simple", "multiple", "weighted", "spiral"}

DrunkardOptions ==
  [fillPercentage : {45}, variant : DrunkardVariants \ {"multiple"}, numWalkers : {4},
   ensureConnected : BOOLEAN, placeMarkers : BOOLEAN]
  \cup
  [fillPercentage : {45}, variant : {"multiple"}, numWalkers : {3, 6},
   ensureConnected : BOOLEAN, placeMarkers : BOOLEAN]
  \cup
  [fillPercentage : {90}, variant : {"simple", "weighted"}, numWalkers : {4},
   ensureConnected : {TRUE}, placeMarkers : {FALSE}]

BspOptions ==
  [minPartitionSize : {2, 3, 6}, maxDepth : {1, 4}, minRoomSize : {1, 3}, padding : {0, 1},
   addDoorsEnabled : BOOLEAN, doorChance : {30}, ensureConnected : BOOLEAN,
   placeMarkers : BOOLEAN]

InitBsp ==
  /\ kind = "bsp"
  /\ tiles \in Sizes
  /\ opts \in BspOptions
  /\ rng \in Seeds
  /\ InitLocals

WfcOptions ==
  [maxBacktracks : 0..MaxBacktracksOpt, ensureConnected : BOOLEAN, placeMarkers : BOOLEAN]

InitWfc ==
  /\ kind = "wfc"
  /\ tiles \in Sizes
  /\ opts \in WfcOptions
  /\ rng \in Seeds
  /\ InitLocals

\* algorithm "kruskal" stands for an algorithm name the generator does not know
MazeAlgorithms == {"backtracking", "prims", "division", "kruskal"}

MazeOptions ==
  [algorithm : MazeAlgorithms, addStartEndMarkers : BOOLEAN, loopChance : {0, 50},
   openness : {0, 20}]

InitMaze ==
  /\ kind = "maze"
  /\ tiles \in Sizes
  /\ opts \in MazeOptions
  /\ rng \in Seeds
  /\ InitLocals

InitDrunkard ==
  /\ kind = "drunkard"
  /\ tiles \in Sizes
  /\ opts \in DrunkardOptions
  /\ rng \in Seeds
  /\ InitLocals

\* kind "hexes" stands for a kind name the dispatcher does not know; the default
\* kind and an unknown kind read no option
Requests ==
  ({"caves"} \X CaveOptions) \cup ({"drunkard"} \X DrunkardOptions)
    \cup ({"bsp"} \X BspOptions) \cup ({"wfc"} \X WfcOptions)
    \cup ({"maze"} \X MazeOptions) \cup ({"default", "hexes"} \X {Null})

Init ==
  /\ \E request \in Requests :
       /\ kind = request[1]
       /\ opts = request[2]
  /\ tiles \in Sizes
  /\ rng \in Seeds
  /\ InitLocals

(***************************************************************************)
(* Dispatch (createGenerators / createGrid).                               *)
(***************************************************************************)
GeneratorKinds == {"default", "caves", "wfc", "drunkard", "bsp", "maze"}

\* createGrid: look the kind up; an unknown kind is logged and nothing is generated
CreateGrid ==
  /\ pc = "request"
  /\ IF kind \in GeneratorKinds
       THEN /\ pc' = kind
            /\ outcome' = outcome
     ELSE /\ pc' = "done"
          /\ outcome' = "error"
  /\ UNCHANGED <<kind, tiles, opts, rng, grid, markers, pre, iter, walker, tree,
                 cells, history, stats, stack, frontier>>

(***************************************************************************)
(* generateCaveCellularAutomata                                            *)
(***************************************************************************)
CaveInit ==
  /\ pc = "caves"
  /\ grid' = CaveInitialGrid(tiles, rng, opts.initialDensity)
  /\ rng' = RngAfter(rng, tiles * tiles)
  /\ iter' = 0
  /\ pc' = "smooth"
  /\ UNCHANGED <<kind, tiles, opts, outcome, markers, pre, walker, tree, cells,
                 history, stats, stack, frontier>>

CaveSmooth ==
  /\ pc = "smooth"
  /\ iter < opts.iterations
  /\ grid' = Apply45Rule(grid)
  /\ iter' = iter + 1
  /\ UNCHANGED <<kind, tiles, opts, rng, pc, outcome, markers, pre, walker, tree,
                 cells, history, stats, stack, frontier>>

CaveConnect ==
  /\ pc = "smooth"
  /\ iter >= opts.iterations
  /\ pre' = grid
  /\ grid' = CaveEnsureConnectivity(grid, opts.ensureConnected, opts.connectDisconnected)
  /\ pc' = "markers"
  /\ UNCHANGED <<kind, tiles, opts, rng, outcome, markers, iter, walker, tree,
                 cells, history, stats, stack, frontier>>

\* the marker step that ends generateCave, generateDrunkardWalk, generateBSP and
\* generateWFC, and the return of the result
PlaceMarkers ==
  /\ pc = "markers"
  /\ IF opts.placeMarkers
       THEN \E placed \in {PlaceStartEnd(grid, rng)} :
              /\ grid' = placed.grid
              /\ rng' = placed.rng
              /\ markers' = [start |-> placed.start, end |-> placed.end]
     ELSE UNCHANGED <<grid, rng, markers>>
  /\ pc' = "done"
  /\ outcome' = "grid"
  /\ UNCHANGED <<kind, tiles, opts, pre, iter, walker, tree, cells, history,
                 stats, stack, frontier>>

NextCave == CreateGrid \/ CaveInit \/ CaveSmooth \/ CaveConnect \/ PlaceMarkers

SpecCave == InitCave /\ [][NextCave]_vars

(***************************************************************************)
(* generateDrunkardWalk                                                    *)
(***************************************************************************)
WalkerAt(x, y, index, target) ==
  [x |-> x, y |-> y, stepsWithoutCarving |-> 0, steps |-> 0, index |-> index,
   target |-> target]

\* the solid grid, the target and the switch on the variant; any variant other
\* than "simple" and "multiple" takes the weighted walk
DrunkardStart ==
  /\ pc = "drunkard"
  /\ grid' = CreateSolidGrid(tiles, tiles)
  /\ LET targetFloors == TargetFloors(tiles, opts.fillPercentage)
     IN CASE opts.variant = "simple" ->
               /\ walker' = WalkerAt(tiles \div 2, tiles \div 2, 0, targetFloors)
               /\ pc' = "walk"
          [] opts.variant = "multiple" ->
               /\ walker' = WalkerAt(0, 0, 0, targetFloors)
               /\ pc' = "spawn"
          [] OTHER ->
               /\ walker' = WalkerAt(tiles \div 2, tiles \div 2, 0, targetFloors)
               /\ pc' = "weighted"
  /\ UNCHANGED <<kind, tiles, opts, rng, outcome, markers, pre, iter, tree, cells,
                 history, stats, stack, frontier>>

WalkDrunkContinues ==
  /\ CountFloors(grid) < walker.target
  /\ walker.stepsWithoutCarving < tiles * tiles

WalkDrunkStep ==
  /\ pc = "walk"
  /\ WalkDrunkContinues
  /\ LET r == WalkDrunkBody(grid, walker, rng, tiles, tiles)
     IN /\ grid' = r.grid
        /\ walker' = r.walker
        /\ rng' = r.rng
  /\ UNCHANGED <<kind, tiles, opts, pc, outcome, markers, pre, iter, tree, cells,
                 history, stats, stack, frontier>>

\* walkDrunk returns: to the loop of multipleWalkers, or to the connectivity step
WalkDrunkReturn ==
  /\ pc = "walk"
  /\ ~WalkDrunkContinues
  /\ IF opts.variant = "multiple"
       THEN /\ pc' = "spawn"
            /\ walker' = [walker EXCEPT !.index = @ + 1]
     ELSE /\ pc' = "connect"
          /\ walker' = walker
  /\ UNCHANGED <<kind, tiles, opts, rng, grid, outcome, markers, pre, iter, tree,
                 cells, history, stats, stack, frontier>>

\* one pass of the loop of multipleWalkers up to its call of walkDrunk
SpawnWalker ==
  /\ pc = "spawn"
  /\ LET targetFloors == TargetFloors(tiles, opts.fillPercentage)
         walkerSteps == WalkerSteps(targetFloors, opts.numWalkers)
         floorTiles == InteriorFloorTiles(grid, tiles, tiles)
         start == IF CountFloors(grid) = 0 THEN Pt(tiles \div 2, tiles \div 2)
                  ELSE RandomItem(rng, floorTiles)
     IN IF walker.index < opts.numWalkers
          THEN /\ walker' = WalkerAt(start.x, start.y, walker.index,
                                     CountFloors(grid) + walkerSteps)
               /\ rng' = IF CountFloors(grid) = 0 THEN rng ELSE RngStep(rng)
               /\ pc' = "walk"
        ELSE /\ pc' = "connect"
             /\ UNCHANGED <<walker, rng>>
  /\ UNCHANGED <<kind, tiles, opts, grid, outcome, markers, pre, iter, tree, cells,
                 history, stats, stack, frontier>>

WeightedWalkContinues ==
  /\ CountFloors(grid) < walker.target
  /\ walker.steps < tiles * tiles * 4

WeightedWalkStep ==
  /\ pc = "weighted"
  /\ WeightedWalkContinues
  /\ LET r == WeightedWalkBody(grid, walker, rng, tiles, tiles)
     IN /\ grid' = r.grid
        /\ walker' = r.walker
        /\ rng' = r.rng
        /\ pc' = IF r.stop THEN "connect" ELSE pc
  /\ UNCHANGED <<kind, tiles, opts, outcome, markers, pre, iter, tree, cells,
                 history, stats, stack, frontier>>

WeightedWalkReturn ==
  /\ pc = "weighted"
  /\ ~WeightedWalkContinues
  /\ pc' = "connect"
  /\ UNCHANGED <<kind, tiles, opts, rng, grid, outcome, markers, pre, iter, walker,
                 tree, cells, history, stats, stack, frontier>>

DrunkardConnect ==
  /\ pc = "connect"
  /\ kind = "drunkard"
  /\ pre' = grid
  /\ grid' = IF opts.ensureConnected THEN KeepLargestRegion(grid) ELSE grid
  /\ pc' = "markers"
  /\ UNCHANGED <<kind, tiles, opts, rng, outcome, markers, iter, walker, tree,
                 cells, history, stats, stack, frontier>>

NextDrunkard ==
  \/ CreateGrid
  \/ DrunkardStart
  \/ WalkDrunkStep
  \/ WalkDrunkReturn
  \/ SpawnWalker
  \/ WeightedWalkStep
  \/ WeightedWalkReturn
  \/ DrunkardConnect
  \/ PlaceMarkers

SpecDrunkard == InitDrunkard /\ [][NextDrunkard]_vars

(***************************************************************************)
(* generateBSP                                                             *)
(***************************************************************************)
BspBuildTree ==
  /\ pc = "bsp"
  /\ grid' = CreateSolidGrid(tiles, tiles)
  /\ LET root == [n \in {1} |-> BSPNode(1, 1, tiles - 2, tiles - 2)]
         built == BuildTree([tree |-> root, rng |-> rng], 1, opts.minPartitionSize,
                            opts.maxDepth, 0)
     IN /\ tree' = built.tree
        /\ rng' = built.rng
  /\ pc' = "rooms"
  /\ UNCHANGED <<kind, tiles, opts, outcome, markers, pre, iter, walker, cells,
                 history, stats, stack, frontier>>

BspCreateRooms ==
  /\ pc = "rooms"
  /\ LET made == CreateRooms([tree |-> tree, rng |-> rng], 1, opts.minRoomSize,
                             opts.padding)
     IN /\ tree' = made.tree
        /\ rng' = made.rng
        /\ grid' = DrawAllRooms(grid, made.tree)
  /\ pc' = "corridors"
  /\ UNCHANGED <<kind, tiles, opts, outcome, markers, pre, iter, walker, cells,
                 history, stats, stack, frontier>>

BspConnectRooms ==
  /\ pc = "corridors"
  /\ LET joined == ConnectRoomsInTree([grid |-> grid, rng |-> rng], tree, 1)
     IN /\ grid' = joined.grid
        /\ rng' = joined.rng
  /\ pc' = "stitch"
  /\ UNCHANGED <<kind, tiles, opts, outcome, markers, pre, iter, walker, tree, cells,
                 history, stats, stack, frontier>>

\* checkConnectivity, and connectRegions when asked for and needed
BspStitch ==
  /\ pc = "stitch"
  /\ pre' = grid
  /\ LET connectivity == CheckConnectivity(grid)
         fixed == IF opts.ensureConnected /\ ~connectivity.connected
                    THEN ConnectRegions(grid) ELSE grid
         after == IF opts.ensureConnected /\ ~connectivity.connected
                    THEN CheckConnectivity(fixed) ELSE connectivity
     IN /\ grid' = fixed
        /\ stats' = [stats EXCEPT !.connected = after.connected,
                                  !.regions = after.regions]
  /\ pc' = "doors"
  /\ UNCHANGED <<kind, tiles, opts, rng, outcome, markers, iter, walker, tree, cells,
                 history, stack, frontier>>

BspAddDoors ==
  /\ pc = "doors"
  /\ LET r == AddDoors(grid, rng, opts.doorChance)
     IN IF opts.addDoorsEnabled
          THEN /\ grid' = r.grid
               /\ rng' = r.rng
        ELSE UNCHANGED <<grid, rng>>
  /\ pc' = "markers"
  /\ UNCHANGED <<kind, tiles, opts, outcome, markers, pre, iter, walker, tree, cells,
                 history, stats, stack, frontier>>

NextBsp ==
  \/ CreateGrid
  \/ BspBuildTree
  \/ BspCreateRooms
  \/ BspConnectRooms
  \/ BspStitch
  \/ BspAddDoors
  \/ PlaceMarkers

SpecBsp == InitBsp /\ [][NextBsp]_vars

(***************************************************************************)
(* generateWFC                                                             *)
(***************************************************************************)
WfcStart ==
  /\ pc = "wfc"
  /\ cells' = SeedCentre(CreateSuperposition(tiles, tiles), tiles)
  /\ history' = <<>>
  /\ stats' = [stats EXCEPT !.iterations = 0, !.backtracks = 0]
  /\ pc' = "collapse"
  /\ UNCHANGED <<kind, tiles, opts, rng, grid, outcome, markers, pre, iter, walker,
                 tree, stack, frontier>>

\* one pass of the main loop: find, snapshot and trim, collapse, propagate; on a
\* contradiction restore the last snapshot while the budget lasts, else leave the loop
WfcIterate ==
  /\ pc = "collapse"
  /\ stats.iterations < tiles * tiles * 3
  /\ \E found \in {FindLowestEntropyCell(cells, rng)} :
       IF found.coord = Null
         THEN /\ stats' = [stats EXCEPT !.iterations = @ + 1]
              /\ pc' = "result"
              /\ UNCHANGED <<cells, history, rng>>
       ELSE
         \E pushed \in {TrimHistory(Append(history, [grid |-> cells, coord |-> found.coord]),
                                    opts.maxBacktracks)} :
         \E collapsed \in {CollapseCell(cells[found.coord.y][found.coord.x], found.rng)} :
         \E propagated \in
              {IF collapsed.chosen = NoTile THEN [cells |-> cells, success |-> FALSE]
               ELSE Propagate([cells EXCEPT ![found.coord.y][found.coord.x] = collapsed.cell],
                              found.coord.x, found.coord.y)} :
           /\ rng' = collapsed.rng
           /\ IF propagated.success
                THEN /\ stats' = [stats EXCEPT !.iterations = @ + 1]
                     /\ cells' = propagated.cells
                     /\ history' = pushed
                     /\ pc' = pc
              ELSE IF Len(pushed) > 0 /\ stats.backtracks < opts.maxBacktracks
                THEN /\ stats' = [stats EXCEPT !.iterations = @ + 1, !.backtracks = @ + 1]
                     /\ cells' = Restore(pushed[Len(pushed)])
                     /\ history' = SubSeq(pushed, 1, Len(pushed) - 1)
                     /\ pc' = pc
              ELSE /\ stats' = [stats EXCEPT !.iterations = @ + 1]
                   /\ cells' = propagated.cells
                   /\ history' = pushed
                   /\ pc' = "result"
  /\ UNCHANGED <<kind, tiles, opts, grid, outcome, markers, pre, iter, walker, tree,
                 stack, frontier>>

WfcLoopEnd ==
  /\ pc = "collapse"
  /\ stats.iterations >= tiles * tiles * 3
  /\ pc' = "result"
  /\ UNCHANGED <<kind, tiles, opts, rng, grid, outcome, markers, pre, iter, walker,
                 tree, cells, history, stats, stack, frontier>>

\* the conversion to tiles and the connectivity step
WfcResult ==
  /\ pc = "result"
  /\ pre' = ResultGrid(cells)
  /\ grid' = IF opts.ensureConnected THEN KeepLargestRegion(ResultGrid(cells))
             ELSE ResultGrid(cells)
  /\ pc' = "markers"
  /\ UNCHANGED <<kind, tiles, opts, rng, outcome, markers, iter, walker, tree, cells,
                 history, stats, stack, frontier>>

NextWfc == CreateGrid \/ WfcStart \/ WfcIterate \/ WfcLoopEnd \/ WfcResult \/ PlaceMarkers

SpecWfc == InitWfc /\ [][NextWfc]_vars

(***************************************************************************)
(* generateMaze                                                            *)
(***************************************************************************)
\* the grid is built with `tiles` rows and columns for every algorithm; division
\* runs at once, prims and backtracking (the choice for every other name) start
\* their loops at (1, 1)
MazeStart ==
  /\ pc = "maze"
  /\ LET width == IF tiles % 2 = 0 THEN tiles - 1 ELSE tiles
         height == IF tiles % 2 = 0 THEN tiles - 1 ELSE tiles
         orientation == IF width > height THEN "vertical" ELSE "horizontal"
         solid == [CreateSolidGrid(tiles, tiles) EXCEPT ![1][1] = FLOOR]
     IN CASE opts.algorithm = "division" ->
               \E divided \in {RecursiveDivision([grid |-> OpenGrid(tiles), rng |-> rng, divided |-> {}],
                                                 1, 1, tiles - 2, tiles - 2, orientation)} :
                 /\ grid' = divided.grid
                 /\ rng' = divided.rng
                 /\ pc' = "loops"
                 /\ UNCHANGED <<stack, frontier>>
          [] opts.algorithm = "prims" ->
               /\ grid' = solid
               /\ frontier' = AddFrontier(solid, 1, 1)
               /\ pc' = "prims"
               /\ UNCHANGED <<rng, stack>>
          [] OTHER ->
               /\ grid' = solid
               /\ stack' = <<Pt(1, 1)>>
               /\ pc' = "backtrack"
               /\ UNCHANGED <<rng, frontier>>
  /\ UNCHANGED <<kind, tiles, opts, outcome, markers, pre, iter, walker, tree, cells,
                 history, stats>>

RecursiveBacktrackingStep ==
  /\ pc = "backtrack"
  /\ Len(stack) > 0
  /\ \E r \in {RecursiveBacktrackingBody(grid, stack, rng)} :
       /\ grid' = r.grid
       /\ stack' = r.stack
       /\ rng' = r.rng
  /\ UNCHANGED <<kind, tiles, opts, pc, outcome, markers, pre, iter, walker, tree,
                 cells, history, stats, frontier>>

PrimsStep ==
  /\ pc = "prims"
  /\ Len(frontier) > 0
  /\ \E r \in {PrimsBody(grid, frontier, rng)} :
       /\ grid' = r.grid
       /\ frontier' = r.frontier
       /\ rng' = r.rng
  /\ UNCHANGED <<kind, tiles, opts, pc, outcome, markers, pre, iter, walker, tree,
                 cells, history, stats, stack>>

\* the carving loop has ended
MazeCarved ==
  /\ \/ pc = "backtrack" /\ Len(stack) = 0
     \/ pc = "prims" /\ Len(frontier) = 0
  /\ pc' = "loops"
  /\ UNCHANGED <<kind, tiles, opts, rng, grid, outcome, markers, pre, iter, walker,
                 tree, cells, history, stats, stack, frontier>>

\* loops, openness, the markers and the result
MazeFinish ==
  /\ pc = "loops"
  /\ \E looped \in {IF opts.loopChance > 0 THEN AddLoops(grid, rng, opts.loopChance)
                    ELSE [grid |-> grid, rng |-> rng]} :
     \E opened \in {IF opts.openness > 0
                      THEN AddOpenness(looped.grid, looped.rng, opts.openness)
                    ELSE looped} :
     \E marked \in {IF opts.addStartEndMarkers THEN AddStartEnd(opened.grid)
                    ELSE [grid |-> opened.grid, start |-> Null, end |-> Null]} :
       /\ pre' = grid
       /\ grid' = marked.grid
       /\ rng' = opened.rng
       /\ markers' = [start |-> marked.start, end |-> marked.end]
  /\ stats' = [stats EXCEPT !.isPerfect = (opts.loopChance = 0 /\ opts.openness = 0)]
  /\ pc' = "done"
  /\ outcome' = "grid"
  /\ UNCHANGED <<kind, tiles, opts, iter, walker, tree, cells, history, stack, frontier>>

NextMaze ==
  \/ CreateGrid
  \/ MazeStart
  \/ RecursiveBacktrackingStep
  \/ PrimsStep
  \/ MazeCarved
  \/ MazeFinish

SpecMaze == InitMaze /\ [][NextMaze]_vars

(***************************************************************************)
(* The default kind: generate: () => grid                                  *)
(***************************************************************************)
DefaultGenerate ==
  /\ pc = "default"
  /\ grid' = StaticGrid
  /\ pc' = "done"
  /\ outcome' = "grid"
  /\ UNCHANGED <<kind, tiles, opts, rng, markers, pre, iter, walker, tree, cells,
                 history, stats, stack, frontier>>

Next ==
  \/ CreateGrid
  \/ DefaultGenerate
  \/ CaveInit
  \/ CaveSmooth
  \/ CaveConnect
  \/ DrunkardStart
  \/ WalkDrunkStep
  \/ WalkDrunkReturn
  \/ SpawnWalker
  \/ WeightedWalkStep
  \/ WeightedWalkReturn
  \/ DrunkardConnect
  \/ BspBuildTree
  \/ BspCreateRooms
  \/ BspConnectRooms
  \/ BspStitch
  \/ BspAddDoors
  \/ WfcStart
  \/ WfcIterate
  \/ WfcLoopEnd
  \/ WfcResult
  \/ PlaceMarkers
  \/ MazeStart
  \/ RecursiveBacktrackingStep
  \/ PrimsStep
  \/ MazeCarved
  \/ MazeFinish

Spec == Init /\ [][Next]_vars

(***************************************************************************)
(* Properties.  The notions below are stated on the grid alone and do not   *)
(* use the flood fill of the program.                                      *)
(***************************************************************************)
Cells(g) == (DOMAIN g) \X (DOMAIN g[0])

FloorLikeCells(g) == {c \in Cells(g) : IsFloorLike(g[c[1]][c[2]])}

Adjacent(a, b) == Abs(a[1] - b[1]) + Abs(a[2] - b[2]) = 1

\* the cells of S that a path of 4-adjacent cells of S joins to `from`
Reachable(S, from) ==
  LET Grow(st) ==
        LET new == {c \in S \ st.seen : \E d \in st.edge : Adjacent(c, d)}
        IN [seen |-> st.seen \cup new, edge |-> new]
      Stable(st) == st.edge = {}
  IN Iterate(Grow, Stable, [seen |-> {from}, edge |-> {from}], Cardinality(S) + 1).seen

AtMostOneRegion(g) ==
  LET S == FloorLikeCells(g)
  IN S = {} \/ Reachable(S, CHOOSE c \in S : TRUE) = S

\* the number of unordered 4-adjacent pairs of floor-like cells
AdjacentPairs(g) ==
  LET S == FloorLikeCells(g)
  IN Cardinality({c \in S : <<c[1], c[2] + 1>> \in S})
       + Cardinality({c \in S : <<c[1] + 1, c[2]>> \in S})

IsTree(g) ==
  /\ FloorLikeCells(g) # {}
  /\ AtMostOneRegion(g)
  /\ AdjacentPairs(g) = Cardinality(FloorLikeCells(g)) - 1

OnBorder(c, n) == c[1] \in {0, n - 1} \/ c[2] \in {0, n - 1}

BorderIsWall(g, n) == \A c \in Cells(g) : OnBorder(c, n) => g[c[1]][c[2]] = WALL

IsSquare(g, n) == DOMAIN g = 0..(n - 1) /\ \A y \in DOMAIN g : DOMAIN g[y] = 0..(n - 1)

Returned == pc = "done" /\ outcome = "grid"

DungeonKinds == {"caves", "drunkard", "bsp", "wfc", "maze"}

\* C2: for caves, drunkard, bsp and wfc with ensureConnected true, the floor-like
\* cells of the returned grid form at most one region under 4-adjacency, with
\* doors and with markers too.
C2_ConnectedWhenEnsured ==
  (Returned /\ kind \in {"caves", "drunkard", "bsp", "wfc"} /\ opts.ensureConnected)
    => AtMostOneRegion(grid)

\* a cave whose grid had several regions before the connectivity step, returned
\* with its markers placed
C2_Witness ==
  /\ Returned /\ kind = "caves" /\ opts.ensureConnected /\ opts.placeMarkers
  /\ ~AtMostOneRegion(pre)
  /\ markers.start # Null

\* C3: every border cell of the grid a dungeon generator returns is WALL.
C3_BorderIsWall ==
  (Returned /\ kind \in DungeonKinds) => BorderIsWall(grid, tiles)

\* C4: for every maze, with loops and openness too, the floor-like cells of the
\* returned grid form a single region.
C4_MazeConnected ==
  (Returned /\ kind = "maze") => AtMostOneRegion(grid)

\* C5: a maze reported perfect (loopChance = 0 and openness = 0), for each
\* algorithm and every size, has floor-like cells that form a tree.
C5_PerfectMazeIsTree ==
  (Returned /\ kind = "maze" /\ stats.isPerfect) => IsTree(grid)

\* whether tile b may stand next to tile a in the given direction
Allowed(a, b, direction) ==
  a \in DOMAIN ADJACENCY_RULES /\ InSeq(b, ADJACENCY_RULES[a][direction])

\* C6: in the grid wfc returns with placeMarkers false, every 4-adjacent pair of
\* cells is a pair the adjacency table allows.
C6_AdjacencyObeyed ==
  (Returned /\ kind = "wfc" /\ ~opts.placeMarkers) =>
    \A c \in Cells(grid) :
      /\ <<c[1], c[2] + 1>> \in Cells(grid) =>
           /\ Allowed(grid[c[1]][c[2]], grid[c[1]][c[2] + 1], "east")
           /\ Allowed(grid[c[1]][c[2] + 1], grid[c[1]][c[2]], "west")
      /\ <<c[1] + 1, c[2]>> \in Cells(grid) =>
           /\ Allowed(grid[c[1]][c[2]], grid[c[1] + 1][c[2]], "south")
           /\ Allowed(grid[c[1] + 1][c[2]], grid[c[1]][c[2]], "north")

\* the kinds whose generators end with the placeStartEnd step
MarkerKinds == {"caves", "drunkard", "bsp", "wfc"}

TilesOf(g, tile) == {c \in Cells(g) : g[c[1]][c[2]] = tile}

Distance(a, b) == Abs(a[1] - b[1]) + Abs(a[2] - b[2])

\* the placeStartEnd step is about to run on the current grid
PlacingMarkers == pc = "markers" /\ kind \in MarkerKinds /\ opts.placeMarkers

\* what C7 asks of placeStartEnd, from grid `before` to grid `after` with the
\* markers `m` it returned
MarkersPlaced(before, after, m) ==
  LET W == FloorLikeCells(before)
      s == <<m.start.y, m.start.x>>
      e == <<m.end.y, m.end.x>>
      k == Max(1, (Cardinality(W) - 1) \div 5)
  IN /\ m.start # Null /\ m.end # Null
     /\ s \in W /\ e \in W /\ s # e
     /\ TilesOf(after, START) = {s} /\ TilesOf(after, END) = {e}
     /\ \A c \in Cells(before) \ {s, e} : after[c[1]][c[2]] = before[c[1]][c[2]]
     /\ Cardinality({c \in W \ {s} : Distance(c, s) > Distance(e, s)}) < k

\* C7: placeStartEnd on a grid with at least two floor-like cells and no START or
\* END tile leaves exactly one START and one END, on two distinct cells that were
\* floor-like, changes no other cell, and fewer than k = max(1, floor(0.2 (W - 1)))
\* of the other floor-like cells are strictly farther from START than END is.
C7_MarkersPlaced ==
  [][(/\ PlacingMarkers
      /\ Cardinality(FloorLikeCells(grid)) >= 2
      /\ TilesOf(grid, START) = {} /\ TilesOf(grid, END) = {})
       => MarkersPlaced(grid, grid', markers')]_vars

\* markers placed among at least twelve floor-like cells, with END not the
\* farthest cell from START
C7_Witness ==
  /\ Returned /\ kind \in MarkerKinds /\ opts.placeMarkers
  /\ markers.start # Null /\ markers.end # Null
  /\ Cardinality(FloorLikeCells(grid)) >= 12
  /\ \E c \in FloorLikeCells(grid) :
       Distance(c, <<markers.start.y, markers.start.x>>)
         > Distance(<<markers.end.y, markers.end.x>>, <<markers.start.y, markers.start.x>>)

\* C8: placeStartEnd on a grid with fewer than two floor-like cells returns no
\* start and no end, changes no cell and draws nothing from the PRNG.
C8_TooFewCells ==
  [][(PlacingMarkers /\ Cardinality(FloorLikeCells(grid)) < 2)
       => (/\ grid' = grid
           /\ rng' = rng
           /\ markers'.start = Null /\ markers'.end = Null)]_vars

\* a generator asked for markers returned a grid with a single floor-like cell
C8_Witness ==
  /\ Returned /\ kind \in MarkerKinds /\ opts.placeMarkers
  /\ Cardinality(FloorLikeCells(grid)) = 1
  /\ markers = NoMarkers

UnknownName ==
  \/ kind \notin GeneratorKinds
  \/ kind = "drunkard" /\ opts.variant \notin {"simple", "multiple", "weighted"}
  \/ kind = "maze" /\ opts.algorithm \notin {"backtracking", "prims", "division"}

\* C10: a request with an unknown kind, variant or algorithm ends in an error
\* outcome and no grid is generated for it.
C10_UnknownNameIsError ==
  (pc = "done" /\ UnknownName) => (outcome = "error" /\ grid = Null)

\* the passes of connectRegions replayed from grid g with `left` passes allowed:
\* ok when every pass lowered the number of regions and one region or none is
\* left before the allowance ran out
RECURSIVE ReplayPasses(_, _)
ReplayPasses(g, left) ==
  LET n == Len(FindRegions(g))
  IN IF n <= 1 THEN [grid |-> g, ok |-> TRUE]
     ELSE IF left = 0 THEN [grid |-> g, ok |-> FALSE]
     ELSE LET next == ConnectPass(g)
          IN IF Len(FindRegions(next)) < n THEN ReplayPasses(next, left - 1)
             ELSE [grid |-> next, ok |-> FALSE]

ConnectsInPasses(before, after) ==
  LET n0 == Len(FindRegions(before))
      replay == ReplayPasses(before, Max(n0 - 1, 0))
  IN /\ replay.ok
     /\ after = replay.grid
     /\ Len(FindRegions(after)) <= 1
     /\ (FloorLikeCells(before) = {} => after = before)

\* the cave generator has just run connectRegions: pre is the grid it was given
CaveConnected ==
  /\ kind = "caves" /\ pc = "markers"
  /\ opts.ensureConnected /\ opts.connectDisconnected

\* C11: connectRegions ends: every pass of its loop lowers the number of regions,
\* it makes at most (initial number of regions - 1) passes, the grid it returns
\* has at most one region, and a grid with no floor-like cell is returned as it is.
C11_ConnectTerminates == CaveConnected => ConnectsInPasses(pre, grid)

\* connectRegions has joined three or more regions into one
C11_Witness ==
  /\ CaveConnected
  /\ Len(FindRegions(pre)) >= 3
  /\ Len(FindRegions(grid)) = 1

\* no uncollapsed cell with a non-empty option list is left
NoCellLeft(c) ==
  \A p \in Cells(c) : c[p[1]][p[2]].collapsed \/ Len(c[p[1]][p[2]].options) = 0

\* C12: in the wfc main loop, once no uncollapsed cell with options is left the
\* iteration ends the loop: no snapshot is pushed, no cell is collapsed again and
\* nothing is drawn from the PRNG.
C12_LoopEndsWhenNoCellLeft ==
  [][(kind = "wfc" /\ pc = "collapse" /\ NoCellLeft(cells))
       => (pc' = "result" /\ UNCHANGED <<cells, history, rng>>)]_vars

\* Every uncollapsed cell keeps FLOOR and CORRIDOR among its options: each row of
\* ADJACENCY_RULES allows both, and both allow every tile back.  Hence no option
\* list empties, propagate never fails and no snapshot is ever restored.
WfcNeverContradicts ==
  (kind = "wfc" /\ cells # Null) =>
    /\ stats.backtracks = 0
    /\ \A p \in Cells(cells) :
          cells[p[1]][p[2]].collapsed
          \/ (InSeq(FLOOR, cells[p[1]][p[2]].options)
              /\ InSeq(CORRIDOR, cells[p[1]][p[2]].options))

\* every cell is WALL, FLOOR, DOOR or CORRIDOR, but for START and END on the
\* cells the markers name
WfcTilesOnly(g, m) ==
  \A c \in Cells(g) :
    \/ g[c[1]][c[2]] \in {WALL, FLOOR, DOOR, CORRIDOR}
    \/ g[c[1]][c[2]] = START /\ m.start = Pt(c[2], c[1])
    \/ g[c[1]][c[2]] = END /\ m.end = Pt(c[2], c[1])

C15_HistoryBounded ==
  kind = "wfc" => Len(history) <= 2 * opts.maxBacktracks

\* the stack is full again after a trim cut it down
C15_Witness ==
  /\ kind = "wfc" /\ pc = "collapse"
  /\ opts.maxBacktracks = 1
  /\ stats.iterations >= 4
  /\ Len(history) = 2

\* C16: the initial grid of the cave generator, before any smoothing pass, has
\* WALL in every border cell; only interior cells are drawn at random.
C16_InitialBorderIsWall ==
  (kind = "caves" /\ pc = "smooth" /\ iter = 0) => BorderIsWall(grid, tiles)

\* a BSP generation with ensureConnected and doors both enabled
BspStitchAndDoors == kind = "bsp" /\ opts.ensureConnected /\ opts.addDoorsEnabled

\* the connectivity in stats is that of grid g
StatsTellConnectivityOf(st, g) ==
  /\ st.connected = AtMostOneRegion(g)
  /\ st.regions = Len(FindRegions(g))

\* C17: in BSP generation with ensureConnected and doors both enabled the stitch
\* step runs first, on a grid without doors, and door placement follows it and
\* leaves stats alone; the connectivity in stats is nevertheless that of the grid
\* with its doors, because a door only replaces a CORRIDOR cell.
C17_StitchBeforeDoors ==
  [][BspStitchAndDoors =>
       /\ pc = "stitch" => /\ pc' = "doors"
                           /\ TilesOf(grid, DOOR) = {}
                           /\ StatsTellConnectivityOf(stats', grid')
       /\ pc = "doors" => /\ pc' = "markers"
                          /\ stats' = stats
                          /\ StatsTellConnectivityOf(stats, grid')]_vars

\* doors have been placed after the stitch step and the grid is connected
C17_Witness ==
  /\ BspStitchAndDoors /\ pc = "markers"
  /\ TilesOf(grid, DOOR) # {}
  /\ stats.connected /\ AtMostOneRegion(grid)

\* C17 as stated: the stitch step runs after door placement.
C17_StitchAfterDoors ==
  [][(BspStitchAndDoors /\ pc = "doors") => pc' = "stitch"]_vars

\* a maze of even size
EvenMaze == kind = "maze" /\ tiles % 2 = 0

\* the regions recursive division puts a wall in, for the request of this state
DividedRegions ==
  RecursiveDivision([grid |-> OpenGrid(tiles), rng |-> rng, divided |-> {}],
                    1, 1, tiles - 2, tiles - 2, "horizontal").divided

\* C18: for even N the backtracking and Prim algorithms never carve a cell in row
\* N-1 or column N-1, and recursive division never divides a region of even width
\* or even height.
C18_EvenSizeOddPart ==
  EvenMaze =>
    /\ (opts.algorithm \in {"backtracking", "prims"} /\ grid # Null) =>
          \A c \in Cells(grid) :
            (c[1] = tiles - 1 \/ c[2] = tiles - 1) => grid[c[1]][c[2]] = WALL
    /\ (opts.algorithm = "division" /\ pc = "maze") =>
          \A r \in DividedRegions : r[1] % 2 = 1 /\ r[2] % 2 = 1

\* a cave grid between smoothing passes, one request per grid
FloodFillCase ==
  /\ kind = "caves" /\ pc = "smooth"
  /\ ~opts.ensureConnected /\ ~opts.connectDisconnected /\ ~opts.placeMarkers

\* the cells of g whose tile is in valid
ValidCells(g, valid) == {c \in Cells(g) : g[c[1]][c[2]] \in valid}

\* the cells floodFill returns from (sx, sy), as <<y, x>>
Filled(g, sx, sy, valid) ==
  LET filled == FloodFill(g, sx, sy, valid)
  IN {<<filled[i].y, filled[i].x>> : i \in 1..Len(filled)}

\* C19: floodFill(grid, sx, sy, p) returns exactly the in-bounds cells that
\* 4-neighbour steps through cells satisfying p reach from (sx, sy), each once:
\* nothing when the start is out of bounds or fails p, the start otherwise, and
\* never a cell that fails p.  Starts range over the grid and one cell beyond it.
C19_FloodFillIsReachableSet ==
  FloodFillCase =>
    \A sx \in -1..tiles, sy \in -1..tiles, valid \in {FloorLikeTiles, {WALL}} :
      LET S == ValidCells(grid, valid)
      IN /\ Filled(grid, sx, sy, valid)
              = IF <<sy, sx>> \in S THEN Reachable(S, <<sy, sx>>) ELSE {}
         /\ Len(FloodFill(grid, sx, sy, valid)) = Cardinality(Filled(grid, sx, sy, valid))

\* a fill from a floor cell that takes in several cells and leaves others out
C19_Witness ==
  /\ FloodFillCase
  /\ \E c \in FloorLikeCells(grid) :
        /\ Cardinality(Filled(grid, c[2], c[1], FloorLikeTiles)) > 1
        /\ Filled(grid, c[2], c[1], FloorLikeTiles) # FloorLikeCells(grid)

\* keepLargestRegion has just run on grid pre and left grid
KeepLargestCase ==
  /\ pc = "markers" /\ pre # Null
  /\ \/ kind = "caves" /\ opts.ensureConnected /\ ~opts.connectDisconnected
     \/ kind \in {"wfc", "drunkard"} /\ opts.ensureConnected

\* the regions of g: the classes of its floor-like cells under 4-adjacency
RegionsOf(g) ==
  LET S == FloorLikeCells(g)
  IN {Reachable(S, c) : c \in S}

\* cell a comes before cell b in row-major enumeration (cells are <<y, x>>)
RowMajorBefore(a, b) == a[1] < b[1] \/ (a[1] = b[1] /\ a[2] < b[2])

FirstCellOf(R) == CHOOSE c \in R : \A d \in R : c = d \/ RowMajorBefore(c, d)

\* the region of maximum size, the first met in row-major order among equals
LargestFirstRegion(g) ==
  LET regions == RegionsOf(g)
  IN IF regions = {} THEN {}
     ELSE CHOOSE R \in regions :
            \A Q \in regions :
              \/ Cardinality(R) > Cardinality(Q)
              \/ /\ Cardinality(R) = Cardinality(Q)
                 /\ (R = Q \/ RowMajorBefore(FirstCellOf(R), FirstCellOf(Q)))

\* C20: after keepLargestRegion the floor-like cells are exactly the cells of the
\* input region of maximum size, the first in row-major order among regions of
\* that size; those cells keep their tiles, every other floor-like cell is WALL
\* and no other cell changes.
C20_KeepsLargestFirstRegion ==
  KeepLargestCase =>
    LET kept == LargestFirstRegion(pre)
    IN /\ FloorLikeCells(grid) = kept
       /\ \A c \in Cells(pre) :
            grid[c[1]][c[2]] = IF c \in kept THEN pre[c[1]][c[2]]
                              ELSE IF IsFloorLike(pre[c[1]][c[2]]) THEN WALL
                              ELSE pre[c[1]][c[2]]

\* two regions of the same, largest size went in and the first of them came out
C20_Witness ==
  /\ KeepLargestCase
  /\ \E Q \in RegionsOf(pre) :
        /\ Q # LargestFirstRegion(pre)
        /\ Cardinality(Q) = Cardinality(LargestFirstRegion(pre))
  /\ FloorLikeCells(grid) = LargestFirstRegion(pre)

\* C21: every drunkard variant terminates.  The walker stays in the interior
\* 1..N-2, so the border stays WALL; the counters of the two loops never pass
\* N*N and 4*N*N; the simple walk stops on the target or after N*N steps in
\* a row that carve nothing, the weighted walk on the target or after 4*N*N
\* steps; and every run reaches the return.
DrunkardWalking == kind = "drunkard" /\ pc \in {"walk", "weighted"}

DrunkardWalked == kind = "drunkard" /\ pc \in {"connect", "markers", "done"}

TargetReached == CountFloors(pre) >= walker.target

WalkStops ==
  /\ DrunkardWalking => IsInBounds(walker.x, walker.y, tiles, tiles)
  /\ DrunkardWalking \/ DrunkardWalked => BorderIsWall(grid, tiles)
  /\ kind = "drunkard" /\ pc # "drunkard" =>
        /\ walker.stepsWithoutCarving <= tiles * tiles
        /\ walker.steps <= 4 * tiles * tiles
  /\ kind = "drunkard" /\ pc \in {"markers", "done"} =>
        CASE opts.variant = "simple" ->
               TargetReached \/ walker.stepsWithoutCarving = tiles * tiles
          [] opts.variant = "multiple" -> walker.index = opts.numWalkers
          [] OTHER -> TargetReached \/ walker.steps = 4 * tiles * tiles

\* a natural number that every step of the drunkard generator lowers: the
\* stages count down, a carving step lowers the floors still to carve, a step
\* that carves nothing lowers the steps left before the walk gives up
WalkLeft ==
  (walker.target - CountFloors(grid)) * (tiles * tiles + 1)
    + (tiles * tiles - walker.stepsWithoutCarving)

WalkerSpan == (tiles * tiles + 1) * (tiles * tiles + 1)

DrunkardRank ==
  CASE pc = "request" -> 5 + 8 * WalkerSpan
    [] pc = "drunkard" -> 4 + 8 * WalkerSpan
    [] pc = "spawn" -> 3 + (opts.numWalkers - walker.index + 1) * WalkerSpan
    [] pc = "walk" /\ opts.variant = "multiple" ->
         3 + (opts.numWalkers - walker.index) * WalkerSpan + 1 + WalkLeft
    [] pc = "walk" /\ opts.variant # "multiple" -> 3 + 1 + WalkLeft
    [] pc = "weighted" -> 3 + 1 + (4 * tiles * tiles - walker.steps)
    [] pc = "connect" -> 2
    [] pc = "markers" -> 1
    [] OTHER -> 0

C21_DrunkardTerminates ==
  [][/\ WalkStops /\ WalkStops'
     /\ DrunkardRank \in Nat /\ DrunkardRank' \in Nat
     /\ DrunkardRank' < DrunkardRank
     /\ DrunkardRank = 0 <=> pc = "done"]_vars

C21_Witness ==
  /\ kind = "drunkard" /\ pc = "done" /\ opts.variant = "simple"
  /\ ~TargetReached
  /\ walker.stepsWithoutCarving = tiles * tiles

\* C22: in the BSP tree a node is split only when the length of the split axis
\* less minPartitionSize is above minPartitionSize; the two children of a split
\* node are disjoint, cover the parent exactly, and are each at least
\* minPartitionSize long on the split axis; no node is deeper than maxDepth and
\* every node lies in the interior rectangle (1, 1, N-2, N-2).
TreeBuilt == kind = "bsp" /\ tree # Null

RectCells(r) == (r.y..(r.y + r.height - 1)) \X (r.x..(r.x + r.width - 1))

RECURSIVE DepthOf(_)
DepthOf(id) == IF id <= 1 THEN 0 ELSE 1 + DepthOf(id \div 2)

\* the children of a horizontal split lie one above the other
SplitHorizontally(t, id) == t[2 * id + 1].y # t[2 * id].y

AxisLength(t, id, n) == IF SplitHorizontally(t, id) THEN t[n].height ELSE t[n].width

SplitIsSound(t, id, minSize) ==
  LET left == t[2 * id]
      right == t[2 * id + 1]
  IN /\ (2 * id + 1) \in DOMAIN t
     /\ AxisLength(t, id, id) - minSize > minSize
     /\ RectCells(left) \cap RectCells(right) = {}
     /\ RectCells(left) \cup RectCells(right) = RectCells(t[id])
     /\ AxisLength(t, id, 2 * id) >= minSize
     /\ AxisLength(t, id, 2 * id + 1) >= minSize

C22_TreeIsSound ==
  TreeBuilt =>
    /\ 1 \in DOMAIN tree
    /\ \A id \in DOMAIN tree :
          /\ HasChildren(tree, id) => SplitIsSound(tree, id, opts.minPartitionSize)
          /\ DepthOf(id) <= opts.maxDepth
          /\ id > 1 => HasChildren(tree, id \div 2)
          /\ RectCells(tree[id]) \subseteq (1..(tiles - 2)) \X (1..(tiles - 2))
          /\ tree[id].width >= 1 /\ tree[id].height >= 1

C22_Witness ==
  /\ TreeBuilt
  /\ \E id \in DOMAIN tree : DepthOf(id) = 2 /\ HasChildren(tree, id)
  /\ \E id \in DOMAIN tree :
        /\ ~HasChildren(tree, id) /\ DepthOf(id) < opts.maxDepth
        /\ tree[id].width - opts.minPartitionSize <= opts.minPartitionSize

\* C23: every room is at least minRoomSize wide and high and lies in its leaf at
\* least `padding` cells from each edge of the leaf; so every room lies in the
\* interior 1..N-2, the rooms of distinct leaves do not overlap, and drawing
\* the rooms writes the cells of the rooms and no border cell.
RoomsMade == kind = "bsp" /\ pc \notin {"request", "bsp", "rooms"}

RoomIds == {id \in DOMAIN tree : tree[id].room # Null}

RoomInLeaf(node, minRoomSize, padding) ==
  /\ node.room.width >= minRoomSize /\ node.room.height >= minRoomSize
  /\ node.room.x >= node.x + padding
  /\ node.room.y >= node.y + padding
  /\ node.room.x + node.room.width <= node.x + node.width - padding
  /\ node.room.y + node.room.height <= node.y + node.height - padding

RoomsDrawn ==
  \A c \in Cells(grid) :
    grid[c[1]][c[2]] = (IF \E id \in RoomIds : c \in RectCells(tree[id].room)
                          THEN FLOOR ELSE WALL)

C23_RoomsInLeaves ==
  RoomsMade =>
    /\ \A id \in RoomIds :
          /\ ~HasChildren(tree, id)
          /\ RoomInLeaf(tree[id], opts.minRoomSize, opts.padding)
          /\ RectCells(tree[id].room) \subseteq (1..(tiles - 2)) \X (1..(tiles - 2))
    /\ \A a, b \in RoomIds :
          a # b => RectCells(tree[a].room) \cap RectCells(tree[b].room) = {}
    /\ pc = "corridors" => RoomsDrawn /\ BorderIsWall(grid, tiles)

C23_Witness ==
  /\ RoomsMade /\ pc = "corridors" /\ opts.padding = 1
  /\ Cardinality(RoomIds) >= 2
  /\ \E id \in DOMAIN tree : ~HasChildren(tree, id) /\ tree[id].room = Null

\* C24: every DOOR that door placement leaves was a CORRIDOR before it and has
\* a FLOOR and a WALL among its four neighbours; door placement changes no
\* FLOOR and no WALL; a scan that tests the candidates on a snapshot of the
\* grid taken before the scan, with the same coins, gives the same grid; and
\* with placeMarkers false that grid is the output.
AddDoorsFromSnapshot(g, s, doorChance) ==
  LET order == InteriorCells(g)
      Body(st) ==
        LET c == order[st.i]
        IN IF DoorCandidate(g, c.x, c.y)
             THEN [grid |-> IF Chance(st.rng, doorChance)
                              THEN [st.grid EXCEPT ![c.y][c.x] = DOOR] ELSE st.grid,
                   rng |-> RngStep(st.rng), i |-> st.i + 1]
           ELSE [st EXCEPT !.i = st.i + 1]
      Past(st) == st.i > Len(order)
      r == Iterate(Body, Past, [grid |-> g, rng |-> s, i |-> 1], Len(order))
  IN [grid |-> r.grid, rng |-> r.rng]

NeighbourTiles(g, c) ==
  {g[d[1]][d[2]] : d \in {e \in Cells(g) : Adjacent(c, e)}}

PlacingDoors == kind = "bsp" /\ pc = "doors" /\ opts.addDoorsEnabled

DoorsPlacedWell(before, after) ==
  /\ \A c \in Cells(after) :
        /\ after[c[1]][c[2]] = DOOR =>
              /\ before[c[1]][c[2]] = CORRIDOR
              /\ FLOOR \in NeighbourTiles(after, c)
              /\ WALL \in NeighbourTiles(after, c)
        /\ after[c[1]][c[2]] # DOOR => after[c[1]][c[2]] = before[c[1]][c[2]]
        /\ before[c[1]][c[2]] \in {FLOOR, WALL} => after[c[1]][c[2]] = before[c[1]][c[2]]
  /\ after = AddDoorsFromSnapshot(before, rng, opts.doorChance).grid

C24_DoorsOnCorridorEnds ==
  [][/\ PlacingDoors => DoorsPlacedWell(grid, grid')
     /\ kind = "bsp" /\ pc = "markers" /\ ~opts.placeMarkers => grid' = grid]_vars

C24_Witness ==
  /\ kind = "bsp" /\ pc = "done" /\ opts.addDoorsEnabled /\ ~opts.placeMarkers
  /\ \E c, d \in Cells(grid) :
        /\ Adjacent(c, d)
        /\ grid[c[1]][c[2]] = DOOR
        /\ grid[d[1]][d[2]] = DOOR

\* C25: a smoothing pass computes every cell from the grid before the pass: a
\* border cell is WALL; an interior cell is FLOOR when the 5x5 window around
\* it, clipped to the grid, holds no FLOOR, else FLOOR exactly when the 3x3
\* window around it, the cell included, holds at least five FLOOR cells.
FloorsWithin(g, c, radius) ==
  Cardinality({d \in Cells(g) : /\ Abs(d[1] - c[1]) <= radius
                                 /\ Abs(d[2] - c[2]) <= radius
                                 /\ g[d[1]][d[2]] = FLOOR})

Smoothed(before, c) ==
  IF OnBorder(c, tiles) THEN WALL
  ELSE IF FloorsWithin(before, c, 2) = 0 THEN FLOOR
  ELSE IF FloorsWithin(before, c, 1) >= 5 THEN FLOOR
  ELSE WALL

Smoothing == kind = "caves" /\ pc = "smooth" /\ iter' = iter + 1

C25_SmoothingPass ==
  [][Smoothing => \A c \in Cells(grid) : grid'[c[1]][c[2]] = Smoothed(grid, c)]_vars

C25_Witness ==
  /\ kind = "caves" /\ pc = "smooth" /\ iter = 2 /\ opts.initialDensity = 0
  /\ grid[1][1] = WALL
  /\ grid[2][2] = FLOOR
  /\ BorderIsWall(grid, tiles)

\* C26: in a maze carved by backtracking or by Prim with loopChance 0 and
\* openness 0, no cell with two even coordinates is carved in any state, and
\* the returned grid has no 2x2 block of floor-like cells.
CarvedMaze ==
  /\ kind = "maze" /\ grid # Null
  /\ opts.algorithm \in {"backtracking", "prims"}
  /\ opts.loopChance = 0 /\ opts.openness = 0

BothEven(c) == c[1] % 2 = 0 /\ c[2] % 2 = 0

FloorLikeBlock(g, c) ==
  \A d \in {c, <<c[1] + 1, c[2]>>, <<c[1], c[2] + 1>>, <<c[1] + 1, c[2] + 1>>} :
    d \in FloorLikeCells(g)

C26_EvenCellsStayWall ==
  CarvedMaze =>
    /\ \A c \in Cells(grid) : BothEven(c) => grid[c[1]][c[2]] = WALL
    /\ \A c \in Cells(grid) : ~FloorLikeBlock(grid, c)

C26_Witness ==
  /\ CarvedMaze /\ Returned /\ tiles = 8 /\ opts.algorithm = "prims"
  /\ opts.addStartEndMarkers
  /\ \E c \in Cells(grid) : OnBorder(c, tiles) /\ c \in FloorLikeCells(grid)

\* C27: right after corridor routing the floor-like cells form at most one
\* region; so the stitch step changes no cell and reports connected, with
\* ensureConnected false as well.
C27_ConnectedBeforeStitch ==
  [][kind = "bsp" /\ pc = "stitch" =>
       /\ AtMostOneRegion(grid)
       /\ grid' = grid
       /\ stats'.connected
       /\ stats'.regions = (IF FloorLikeCells(grid) = {} THEN 0 ELSE 1)]_vars

C27_Witness ==
  /\ kind = "bsp" /\ pc = "doors" /\ ~opts.ensureConnected
  /\ stats.connected /\ grid = pre
  /\ Cardinality(RoomIds) >= 3
  /\ TilesOf(grid, CORRIDOR) # {}
  /\ \E id \in DOMAIN tree : ~HasChildren(tree, id) /\ tree[id].room = Null

\* C28: in every drunkard variant the FLOOR cells form one 4-connected region,
\* or there are none, after every step of every walker; so the keepLargestRegion
\* step of the generator changes no cell.
FloorCells(g) == {c \in Cells(g) : g[c[1]][c[2]] = FLOOR}

FloorsAreOneRegion(g) ==
  LET S == FloorCells(g)
  IN S = {} \/ Reachable(S, CHOOSE c \in S : TRUE) = S

C28_FloorsStayConnected ==
  [][kind = "drunkard" /\ pc \in {"drunkard", "walk", "spawn", "weighted", "connect"} =>
       /\ FloorsAreOneRegion(grid')
       /\ pc = "connect" => grid' = grid]_vars

C28_Witness ==
  /\ kind = "drunkard" /\ pc = "markers" /\ opts.ensureConnected
  /\ opts.variant = "multiple" /\ walker.index = opts.numWalkers
  /\ grid = pre
  /\ Cardinality(FloorCells(grid)) >= walker.target

\* C29: with targetFloors = floor(N * N * fillPercentage), the FLOOR count of
\* the simple and the weighted variant never passes targetFloors; that of the
\* multiple variant never passes numWalkers * ceil(targetFloors / numWalkers)
\* and passes targetFloors by less than numWalkers.
Walked == kind = "drunkard" /\ grid # Null

FloorBudget == TargetFloors(tiles, opts.fillPercentage)

C29_FloorsWithinTarget ==
  Walked =>
    IF opts.variant = "multiple"
      THEN /\ opts.numWalkers >= 1
           /\ CountFloors(grid)
                 <= opts.numWalkers * WalkerSteps(FloorBudget, opts.numWalkers)
           /\ CountFloors(grid) < FloorBudget + opts.numWalkers
    ELSE CountFloors(grid) <= FloorBudget

C29_Witness ==
  /\ Walked /\ pc = "connect" /\ opts.variant = "multiple"
  /\ CountFloors(grid) > FloorBudget

\* C30: connectRegions changes only WALL cells, and only to the corridor tile,
\* so no floor-like cell changes; the cells a pass changes lie on an L-shaped
\* path, horizontal leg first and then the vertical leg, between two cells of
\* two regions that are at the least Manhattan distance any two cells of
\* different regions have; and when no floor-like cell of the input is on the
\* border, no border cell changes.
Between(v, a, b) == (a <= v /\ v <= b) \/ (b <= v /\ v <= a)

\* the L from cell a to cell b (cells are <<y, x>>): along the row of a to the
\* column of b, then along the column of b
LPath(a, b) ==
  {c \in (0..(tiles - 1)) \X (0..(tiles - 1)) :
     \/ c[1] = a[1] /\ Between(c[2], a[2], b[2])
     \/ c[2] = b[2] /\ Between(c[1], a[1], b[1])}

\* every floor-like cell of g with the first cell, in row-major order, of its
\* region
RegionLabels(g) ==
  LET S == FloorLikeCells(g)
  IN {<<c, FirstCellOf(Reachable(S, c))>> : c \in S}

\* the pairs of cells of different regions, the first from the region met first
\* in row-major order, that are as close as two such cells can be
ClosestPairs(labels) ==
  LET apart == {p \in labels \X labels : RowMajorBefore(p[1][2], p[2][2])}
      gap == MinOf({Distance(p[1][1], p[2][1]) : p \in apart})
  IN {<<p[1][1], p[2][1]>> : p \in {q \in apart : Distance(q[1][1], q[2][1]) = gap}}

ChangedCells(before, after) ==
  {c \in Cells(before) : after[c[1]][c[2]] # before[c[1]][c[2]]}

RECURSIVE PassesOnPaths(_, _)
PassesOnPaths(g, left) ==
  IF left = 0 \/ Len(FindRegions(g)) <= 1 THEN TRUE
  ELSE LET next == ConnectPass(g)
       IN /\ \E labels \in {RegionLabels(g)} :
               \E p \in ClosestPairs(labels) :
                 ChangedCells(g, next) \subseteq LPath(p[1], p[2])
          /\ PassesOnPaths(next, left - 1)

OnlyWallsCarved(before, after) ==
  /\ \A c \in ChangedCells(before, after) :
        before[c[1]][c[2]] = WALL /\ after[c[1]][c[2]] = FLOOR
  /\ \A c \in FloorLikeCells(before) : after[c[1]][c[2]] = before[c[1]][c[2]]
  /\ (\A c \in FloorLikeCells(before) : ~OnBorder(c, tiles)) =>
        (\A c \in ChangedCells(before, after) : ~OnBorder(c, tiles))

C30_ConnectCarvesWallsOnPaths ==
  CaveConnected =>
    /\ OnlyWallsCarved(pre, grid)
    /\ PassesOnPaths(pre, Len(FindRegions(pre)))

C30_Witness ==
  /\ CaveConnected /\ opts.iterations > 0
  /\ Len(FindRegions(pre)) >= 3
  /\ Cardinality(ChangedCells(pre, grid)) >= 2

====
